---- MODULE Spec2Model ----
(***************************************************************************)
(* Model of github.com/iamwavecut/tool: safetool.ConvertSlice, the         *)
(* reflective slice converter, over a finite universe of Go types and      *)
(* values (Spec); tool.ConvertSlice (SpecLoose); tool.Must, MustReturn and *)
(* Catch (SpecCatch); safetool.RetryFunc, with tool.RetryFunc run beside   *)
(* it (SpecRetry); tool.Recoverer (SpecRecoverer); safetool.RandInt        *)
(* (SpecRandInt); Strtr (SpecStrtr); tool.ExecTemplate (SpecExecTemplate). *)
(* Each specification runs one of them and leaves the variables of the     *)
(* others idle.                                                            *)
(* A Go value is a record [t |-> type name, v |-> payload]; a pointer's    *)
(* or an interface's payload is <<>> (nil) or <<pointee>>.  float64        *)
(* payloads are fixed-point tenths (11 is 1.1).                            *)
(***************************************************************************)
EXTENDS Integers, Sequences, FiniteSets, TLC

\* Longest source slice the model enumerates.
MaxLen == 3

(***************************************************************************)
(* reflect.Kind constants (the order matters: the numeric guard of         *)
(* ConvertSlice is a pair of range tests over these numbers).              *)
(***************************************************************************)
KindInvalid == 0
KindBool == 1
KindInt == 2
KindInt64 == 6
KindUint == 7
KindUint8 == 8
KindUintptr == 12
KindFloat32 == 13
KindFloat64 == 14
KindComplex128 == 16
KindFunc == 19
KindInterface == 20
KindPtr == 22
KindSlice == 23
KindString == 24
KindStruct == 25

\* reflect.TypeOf(nil): no type at all.
NilType == "<nil>"

StructTypes ==
    {"SrcStruct", "DestStructSimple", "DestStructFull", "DestStructInconvertible",
     "DestStructAny", "privStruct", "privDest", "privWide"}

PtrTypes == {"*int", "**int", "*SrcStruct", "*any"}

BasicTypes ==
    {"bool", "int", "uint8", "float64", "complex128", "string", "Varchar", "MyCustomInt",
     "func()"}

Types == BasicTypes \cup StructTypes \cup PtrTypes \cup {"any"}

\* reflect.Type.Kind
Kind(t) ==
    CASE t = "bool" -> KindBool
      [] t \in {"int", "MyCustomInt"} -> KindInt
      [] t = "uint8" -> KindUint8
      [] t = "float64" -> KindFloat64
      [] t = "complex128" -> KindComplex128
      [] t \in {"string", "Varchar"} -> KindString
      [] t = "func()" -> KindFunc
      [] t = "any" -> KindInterface
      [] t \in PtrTypes -> KindPtr
      [] t \in StructTypes -> KindStruct
      [] OTHER -> KindInvalid

\* reflect.Type.Elem of a pointer type
ElemType(t) ==
    CASE t = "*int" -> "int"
      [] t = "**int" -> "*int"
      [] t = "*SrcStruct" -> "SrcStruct"
      [] t = "*any" -> "any"

\* reflect.Type.Name() # "": a defined type (pointer, func and interface
\* literals have no name)
HasName(t) == t \in ((BasicTypes \ {"func()"}) \cup StructTypes)

Fld(n, t) == [name |-> n, typ |-> t]

\* reflect.Type.Field(j) for j = 1..NumField: the declared fields, in order
Fields(t) ==
    CASE t \in {"SrcStruct", "DestStructFull"} ->
            <<Fld("ID", "int"), Fld("Name", "string"), Fld("Val", "float64")>>
      [] t = "DestStructSimple" -> <<Fld("ID", "int"), Fld("Name", "string")>>
      [] t = "DestStructInconvertible" -> <<Fld("Val", "bool")>>
      [] t = "DestStructAny" -> <<Fld("ID", "any"), Fld("Name", "string")>>
      [] t = "privStruct" -> <<Fld("id", "int"), Fld("Name", "string")>>
      [] t = "privDest" -> <<Fld("id", "string"), Fld("Name", "string")>>
      [] t = "privWide" ->
            <<Fld("id", "int"), Fld("Name", "string"), Fld("Val", "float64")>>
      [] OTHER -> <<>>

FieldNames(t) == {Fields(t)[j].name : j \in 1..Len(Fields(t))}

FieldType(t, n) == Fields(t)[CHOOSE j \in 1..Len(Fields(t)) : Fields(t)[j].name = n].typ

\* StructField.IsExported: the name starts with an upper-case letter
IsExported(n) == n \in {"ID", "Name", "Val"}

(***************************************************************************)
(* Values.                                                                 *)
(***************************************************************************)
Val(t, p) == [t |-> t, v |-> p]

NilOf(t) == Val(t, <<>>)

\* &x as a value of pointer type t; a non-nil interface of type t holding x
Box(t, x) == Val(t, <<x>>)

IsNilVal(x) == x.v = <<>>

RECURSIVE Zero(_)
\* reflect.Zero(t).Interface(): the zero value of type t
Zero(t) ==
    CASE Kind(t) = KindBool -> Val(t, FALSE)
      [] Kind(t) \in {KindInt, KindUint8, KindFloat64} -> Val(t, 0)
      [] Kind(t) = KindComplex128 -> Val(t, <<0, 0>>)
      [] Kind(t) = KindString -> Val(t, "")
      [] Kind(t) \in {KindPtr, KindInterface, KindFunc} -> NilOf(t)
      [] Kind(t) = KindStruct -> Val(t, [n \in FieldNames(t) |-> Zero(FieldType(t, n))])

\* A populated value of a field type.
FieldSample(t) ==
    CASE t = "bool" -> Val(t, TRUE)
      [] t = "int" -> Val(t, 1)
      [] t = "float64" -> Val(t, 11)
      [] t = "string" -> Val(t, "Alice")
      [] t = "any" -> Box(t, Val("int", 1))

\* The struct value of type t whose every field is populated, e.g.
\* SrcStruct{ID: 1, Name: "Alice", Val: 1.1}.
Alice(t) == Val(t, [n \in FieldNames(t) |-> FieldSample(FieldType(t, n))])

\* SrcStruct{ID: 2, Name: "Bob", Val: 2.2}
Bob ==
    Val("SrcStruct",
        [ID |-> Val("int", 2), Name |-> Val("string", "Bob"), Val |-> Val("float64", 22)])

\* The values of the non-interface types that the model draws inputs from.
ConcreteValues(t) ==
    CASE t = "bool" -> {Val(t, FALSE), Val(t, TRUE)}
      [] t = "int" -> {Val(t, 0 - 1), Val(t, 0), Val(t, 1)}
      [] t = "uint8" -> {Val(t, 0), Val(t, 200)}
      [] t = "float64" -> {Val(t, 0), Val(t, 11)}
      [] t = "complex128" -> {Val(t, <<0, 0>>), Val(t, <<1, 1>>)}
      [] t \in {"string", "Varchar"} -> {Val(t, ""), Val(t, "Alice")}
      [] t = "MyCustomInt" -> {Val(t, 0), Val(t, 5)}
      [] t = "func()" -> {Box(t, "func1")}
      [] t = "SrcStruct" -> {Zero(t), Alice(t), Bob}
      [] t \in StructTypes \ {"SrcStruct"} -> {Zero(t), Alice(t)}
      [] t = "*int" -> {NilOf(t), Box(t, Val("int", 1)), Box(t, Val("int", 2))}
      [] t = "**int" -> {NilOf(t), Box(t, NilOf("*int")), Box(t, Box("*int", Val("int", 1)))}
      [] t = "*SrcStruct" -> {NilOf(t), Box(t, Alice("SrcStruct"))}
      [] OTHER -> {}

\* The dynamic values a variable of type any holds in the model.
AnyContents ==
    {Val("MyCustomInt", 5), Val("string", "Alice"), Alice("SrcStruct"),
     Box("*int", Val("int", 1)), NilOf("*int")}

AnyValues == {NilOf("any")} \cup {Box("any", x) : x \in AnyContents}

\* What the pointers of type *any point to in the model.
PtrAnyPointees == {a \in AnyValues : IsNilVal(a) \/ a.v[1].t \in {"MyCustomInt", "*int"}}

Values(t) ==
    CASE t = "any" -> AnyValues
      [] t = "*any" -> {NilOf(t)} \cup {Box(t, a) : a \in PtrAnyPointees}
      [] OTHER -> ConcreteValues(t)

(***************************************************************************)
(* The type relations of package reflect that ConvertSlice asks for.       *)
(***************************************************************************)
\* reflect.haveIdenticalUnderlyingType(T, V, cmpTags) (no type of the
\* universe carries a struct tag)
IdenticalUnderlying(a, b) ==
    \/ a = b
    \/ /\ Kind(a) = Kind(b)
       /\ \/ KindBool <= Kind(a) /\ Kind(a) <= KindComplex128
          \/ Kind(a) = KindString
          \/ Kind(a) = KindPtr /\ ElemType(a) = ElemType(b)
          \/ Kind(a) = KindStruct /\ Fields(a) = Fields(b)

\* reflect.directlyAssignable(T, V): a V value can be stored in a T as it is
DirectlyAssignable(dst, src) ==
    \/ dst = src
    \/ /\ ~(HasName(dst) /\ HasName(src))
       /\ Kind(dst) = Kind(src)
       /\ IdenticalUnderlying(dst, src)

\* reflect.implements(T, V): T is an interface type and V has its methods
\* (the only interface type of the universe is the empty interface)
Implements(dst, src) == Kind(dst) = KindInterface

\* reflect.Type.AssignableTo
AssignableTo(src, dst) == DirectlyAssignable(dst, src) \/ Implements(dst, src)

IsIntKind(k) == KindInt <= k /\ k <= KindInt64

IsUintKind(k) == KindUint <= k /\ k <= KindUintptr

IsFloatKind(k) == k \in {KindFloat32, KindFloat64}

\* reflect.convertOp(dst, src): the conversion function that applies, or
\* "nil" when the types are not convertible
ConvertOp(dst, src) ==
    LET ks == Kind(src)
        kd == Kind(dst)
    IN  CASE IsIntKind(ks) /\ (IsIntKind(kd) \/ IsUintKind(kd)) -> "cvtInt"
          [] IsIntKind(ks) /\ IsFloatKind(kd) -> "cvtIntFloat"
          [] IsIntKind(ks) /\ kd = KindString -> "cvtIntString"
          [] IsUintKind(ks) /\ (IsIntKind(kd) \/ IsUintKind(kd)) -> "cvtUint"
          [] IsUintKind(ks) /\ IsFloatKind(kd) -> "cvtUintFloat"
          [] IsUintKind(ks) /\ kd = KindString -> "cvtUintString"
          [] IsFloatKind(ks) /\ IsIntKind(kd) -> "cvtFloatInt"
          [] IsFloatKind(ks) /\ IsUintKind(kd) -> "cvtFloatUint"
          [] IsFloatKind(ks) /\ IsFloatKind(kd) -> "cvtFloat"
          [] ks = KindComplex128 /\ kd = KindComplex128 -> "cvtComplex"
          [] OTHER ->
                IF IdenticalUnderlying(dst, src) THEN "cvtDirect"
                ELSE IF /\ kd = KindPtr /\ ~HasName(dst)
                        /\ ks = KindPtr /\ ~HasName(src)
                        /\ IdenticalUnderlying(ElemType(dst), ElemType(src))
                     THEN "cvtDirect"
                ELSE IF Implements(dst, src) THEN "cvtT2I"
                ELSE "nil"

\* reflect.Type.ConvertibleTo
ConvertibleTo(src, dst) == ConvertOp(dst, src) # "nil"

\* An integer stored in a variable of integer type t (uint8 keeps 8 bits).
Wrap(t, n) == IF Kind(t) = KindUint8 THEN n % 256 ELSE n

\* Truncation of a float64 (in tenths) towards zero.
Trunc(f) == IF f >= 0 THEN f \div 10 ELSE 0 - ((0 - f) \div 10)

\* string(rune(n)) for the integers of the universe
RuneString(n) ==
    CASE n = 0 -> "\\x00"
      [] n = 1 -> "\\x01"
      [] n = 2 -> "\\x02"
      [] n = 5 -> "\\x05"
      [] n = 200 -> "\\u00c8"
      [] OTHER -> "\\ufffd"

\* reflect.Value.Convert(dst) for a value whose type is convertible to dst
Convert(x, dst) ==
    LET op == ConvertOp(dst, x.t)
    IN  CASE op \in {"cvtInt", "cvtUint"} -> Val(dst, Wrap(dst, x.v))
          [] op \in {"cvtIntFloat", "cvtUintFloat"} -> Val(dst, x.v * 10)
          [] op \in {"cvtIntString", "cvtUintString"} -> Val(dst, RuneString(x.v))
          [] op \in {"cvtFloatInt", "cvtFloatUint"} -> Val(dst, Wrap(dst, Trunc(x.v)))
          [] op \in {"cvtFloat", "cvtComplex", "cvtDirect"} -> Val(dst, x.v)
          [] op = "cvtT2I" -> Box(dst, x)

\* reflect.Value.Set(x) on a settable value of type dst, x assignable to
\* dst (Value.assignTo): stored as it is, or wrapped in the interface
AssignTo(x, dst) ==
    IF DirectlyAssignable(dst, x.t) THEN Val(dst, x.v) ELSE Box(dst, x)

(***************************************************************************)
(* reflect.Value: a value record, or InvalidValue (the zero Value).        *)
(***************************************************************************)
InvalidValue == Val(NilType, <<>>)

\* reflect.Value.IsValid
IsValid(x) == x.t # NilType

\* reflect.ValueOf(x): an interface is replaced by what it holds
ValueOf(x) ==
    IF Kind(x.t) = KindInterface
    THEN (IF IsNilVal(x) THEN InvalidValue ELSE x.v[1])
    ELSE x

\* reflect.TypeOf(x): the dynamic type, nil for a nil interface
TypeOf(x) == ValueOf(x).t

\* reflect.Value.Elem of a non-nil pointer or of an interface
Elem(x) == IF IsNilVal(x) THEN InvalidValue ELSE x.v[1]

\* fmt.Errorf(format, args...)
Errorf(format, args) == [format |-> format, args |-> args]

ErrNotSlice == Errorf("srcSlice is not a slice", <<>>)

ErrNil == Errorf("srcSlice is nil", <<>>)

FmtNumericToString ==
    "cannot convert element at index %d: direct conversion from numeric/bool type %s to string is not supported by ConvertSlice"

FmtFieldMismatch ==
    "cannot convert element at index %d: struct field '%s' type mismatch, source type %s, destination type %s, not assignable"

FmtNoStrategy ==
    "cannot convert element at index %d from type %s to %s: no direct conversion, assignability, or compatible struct field copy strategy found"

\* The outcomes of one iteration of the element loop.
SetElem(x) == [st |-> "set", val |-> x, err |-> ErrNil]

\* The error returns that give the index alone.
FailElemIndexOnly(e) ==
    [st |-> "err", val |-> InvalidValue, err |-> Errorf(e.format, <<e.args[1]>>)]

FailElem(e) == [st |-> "err", val |-> InvalidValue, err |-> e]

\* Unwrap that does not follow pointers (interfaces are still unwrapped).
UnwrapNoDeref(x) ==
    LET v0 == ValueOf(x)
    IN  IF ~IsValid(v0) \/ (Kind(v0.t) \in {KindPtr, KindInterface} /\ IsNilVal(v0))
        THEN InvalidValue
        ELSE IF Kind(v0.t) = KindInterface THEN Elem(v0) ELSE v0

\* Lines 203-224: what is left of element x once the pointer is followed
\* and the interface unwrapped; InvalidValue stands for a null element.
Unwrap(x) ==
    LET v0 == ValueOf(x)
    IN  IF ~IsValid(v0) \/ (Kind(v0.t) \in {KindPtr, KindInterface} /\ IsNilVal(v0))
        THEN InvalidValue
        ELSE LET v1 == IF Kind(v0.t) = KindPtr THEN Elem(v0) ELSE v0
             IN  IF Kind(v0.t) = KindPtr
                    /\ (~IsValid(v1) \/ (Kind(v1.t) = KindInterface /\ IsNilVal(v1)))
                 THEN InvalidValue
                 ELSE IF Kind(v1.t) = KindInterface THEN Elem(v1) ELSE v1

\* The guard with the signed integer kinds only.
NumericToStringSignedOnly(srcKind, destKind) ==
    /\ srcKind >= KindInt /\ srcKind <= KindInt64
    /\ destKind = KindString

\* Lines 230-232: the numeric/bool-to-string guard
NumericToString(srcKind, destKind) ==
    /\ \/ srcKind >= KindInt /\ srcKind <= KindUintptr
       \/ srcKind >= KindFloat32 /\ srcKind <= KindComplex128
       \/ srcKind = KindBool
    /\ destKind = KindString

\* reflect.Value.CanSet of newDestVal.FieldByName(n): newDestVal is
\* addressable, so the field is settable iff it is exported
CanSet(n) == IsExported(n)

RECURSIVE CopyFieldsLenient(_, _, _, _)
\* The field copy that skips a same-named field of another type.
CopyFieldsLenient(srcVal, newDestVal, j, i) ==
    IF j > Len(Fields(srcVal.t)) THEN SetElem(newDestVal)
    ELSE LET srcFieldDesc == Fields(srcVal.t)[j]
             srcFieldVal == srcVal.v[srcFieldDesc.name]
         IN  IF /\ srcFieldDesc.name \in FieldNames(newDestVal.t)
                /\ CanSet(srcFieldDesc.name)
                /\ AssignableTo(srcFieldVal.t, FieldType(newDestVal.t, srcFieldDesc.name))
             THEN CopyFieldsLenient(srcVal,
                                    Val(newDestVal.t,
                                        [newDestVal.v EXCEPT ![srcFieldDesc.name] =
                                            AssignTo(srcFieldVal,
                                                     FieldType(newDestVal.t, srcFieldDesc.name))]),
                                    j + 1, i)
             ELSE CopyFieldsLenient(srcVal, newDestVal, j + 1, i)

\* The field copy that stops after the first field it has copied.
CopyFieldsFirstOnly(srcVal, newDestVal, j, i) ==
    IF j > Len(Fields(srcVal.t)) THEN SetElem(newDestVal)
    ELSE LET srcFieldDesc == Fields(srcVal.t)[j]
             srcFieldVal == srcVal.v[srcFieldDesc.name]
         IN  IF srcFieldDesc.name \in FieldNames(newDestVal.t) /\ CanSet(srcFieldDesc.name)
             THEN LET destFieldType == FieldType(newDestVal.t, srcFieldDesc.name)
                  IN  IF AssignableTo(srcFieldVal.t, destFieldType)
                      THEN SetElem(Val(newDestVal.t,
                                       [newDestVal.v EXCEPT ![srcFieldDesc.name] =
                                           AssignTo(srcFieldVal, destFieldType)]))
                      ELSE FailElem(Errorf(FmtFieldMismatch,
                                           <<i, srcFieldDesc.name, srcFieldVal.t,
                                             destFieldType>>))
             ELSE SetElem(newDestVal)

RECURSIVE CopyFields(_, _, _, _)
\* Lines 241-254 from field j on: the name-matched field copy of srcVal
\* into newDestVal for the element at index i
CopyFields(srcVal, newDestVal, j, i) ==
    IF j > Len(Fields(srcVal.t)) THEN SetElem(newDestVal)
    ELSE LET srcFieldDesc == Fields(srcVal.t)[j]
             srcFieldVal == srcVal.v[srcFieldDesc.name]
         IN  IF srcFieldDesc.name \in FieldNames(newDestVal.t) /\ CanSet(srcFieldDesc.name)
             THEN LET destFieldType == FieldType(newDestVal.t, srcFieldDesc.name)
                  IN  IF AssignableTo(srcFieldVal.t, destFieldType)
                      THEN CopyFields(srcVal,
                                      Val(newDestVal.t,
                                          [newDestVal.v EXCEPT ![srcFieldDesc.name] =
                                              AssignTo(srcFieldVal, destFieldType)]),
                                      j + 1, i)
                      ELSE FailElem(Errorf(FmtFieldMismatch,
                                           <<i, srcFieldDesc.name, srcFieldVal.t,
                                             destFieldType>>))
             ELSE CopyFields(srcVal, newDestVal, j + 1, i)

\* The conversion that tries the field copy before the direct conversion.
ConvertValueCopyFirst(srcVal, destType, i) ==
    IF NumericToString(Kind(srcVal.t), Kind(destType))
    THEN FailElem(Errorf(FmtNumericToString, <<i, srcVal.t>>))
    ELSE IF Kind(srcVal.t) = KindStruct /\ Kind(destType) = KindStruct
         THEN CopyFields(srcVal, Zero(destType), 1, i)
    ELSE IF ConvertibleTo(srcVal.t, destType) THEN SetElem(Convert(srcVal, destType))
    ELSE IF AssignableTo(srcVal.t, destType) THEN SetElem(AssignTo(srcVal, destType))
    ELSE FailElem(Errorf(FmtNoStrategy, <<i, srcVal.t, destType>>))

\* The conversion that tries the direct conversion before the
\* numeric/bool-to-string guard.
ConvertValueGuardLast(srcVal, destType, i) ==
    IF ConvertibleTo(srcVal.t, destType) THEN SetElem(Convert(srcVal, destType))
    ELSE IF NumericToString(Kind(srcVal.t), Kind(destType))
    THEN FailElem(Errorf(FmtNumericToString, <<i, srcVal.t>>))
    ELSE IF AssignableTo(srcVal.t, destType) THEN SetElem(AssignTo(srcVal, destType))
    ELSE IF Kind(srcVal.t) = KindStruct /\ Kind(destType) = KindStruct
         THEN CopyFields(srcVal, Zero(destType), 1, i)
    ELSE FailElem(Errorf(FmtNoStrategy, <<i, srcVal.t, destType>>))

\* Lines 226-257: the conversion of a non-null, unwrapped element
ConvertValue(srcVal, destType, i) ==
    IF NumericToString(Kind(srcVal.t), Kind(destType))
    THEN FailElem(Errorf(FmtNumericToString, <<i, srcVal.t>>))
    ELSE IF ConvertibleTo(srcVal.t, destType) THEN SetElem(Convert(srcVal, destType))
    ELSE IF AssignableTo(srcVal.t, destType) THEN SetElem(AssignTo(srcVal, destType))
    ELSE IF Kind(srcVal.t) = KindStruct /\ Kind(destType) = KindStruct
         THEN CopyFields(srcVal, Zero(destType), 1, i)
    ELSE FailElem(Errorf(FmtNoStrategy, <<i, srcVal.t, destType>>))

\* The loop body that rejects a null element instead of zeroing it.
ConvertElemNullFails(x, destType, i) ==
    LET srcVal == Unwrap(x)
    IN  IF ~IsValid(srcVal) THEN FailElem(Errorf(FmtNoStrategy, <<i, x.t, destType>>))
        ELSE ConvertValue(srcVal, destType, i)

\* Lines 203-258: the body of the loop for element x at index i
ConvertElem(x, destType, i) ==
    LET srcVal == Unwrap(x)
    IN  IF ~IsValid(srcVal) THEN SetElem(Zero(destType))
        ELSE ConvertValue(srcVal, destType, i)

(***************************************************************************)
(* The call ConvertSlice[T, Y](srcSlice, destTypedValue): the entry        *)
(* checks, one step per loop iteration, the return.  A frame holds the     *)
(* locals and the result of one call; each step maps a frame to the next.  *)
(***************************************************************************)
NilSlice == [isNil |-> TRUE, elems |-> <<>>]

MkSlice(elems) == [isNil |-> FALSE, elems |-> elems]

\* The frame of a call that has not started.
StartFrame ==
    [destType |-> NilType, destSlice |-> <<>>, i |-> 0, pc |-> "start",
     outcome |-> "none", retSlice |-> NilSlice, retErr |-> <<>>]

\* return s, e (e is <<>> for a nil error, else <<error>>)
Return(f, s, e) ==
    [f EXCEPT !.pc = "done", !.outcome = IF e = <<>> THEN "ok" ELSE "err",
              !.retSlice = s, !.retErr = e]

\* a run-time panic: the call does not return
Panic(f) == [f EXCEPT !.pc = "done", !.outcome = "panic"]

\* reflect.TypeOf(srcSlice).Kind(): srcSlice is declared []T
SrcReflectKind == KindSlice

\* EnterStep with the length test first: a nil slice counts as an empty one.
EnterStepNilAsEmpty(src, sample, f) ==
    IF Len(src.elems) = 0 THEN Return(f, MkSlice(<<>>), <<>>)
    ELSE LET dt == TypeOf(sample)
         IN  IF dt = NilType THEN Panic([f EXCEPT !.destType = dt])
             ELSE [f EXCEPT !.destType = dt,
                            !.destSlice = [k \in 1..Len(src.elems) |-> Zero(dt)],
                            !.pc = "loop"]

\* EnterStep without the early return for an empty slice: the destination
\* type is looked up for every non-nil source.
EnterStepNoEmptyCase(src, sample, f) ==
    IF src.isNil THEN Return(f, NilSlice, <<ErrNil>>)
    ELSE LET dt == TypeOf(sample)
         IN  IF dt = NilType THEN Panic([f EXCEPT !.destType = dt])
             ELSE [f EXCEPT !.destType = dt,
                            !.destSlice = [k \in 1..Len(src.elems) |-> Zero(dt)],
                            !.pc = "loop"]

\* Lines 188-200: the checks on srcSlice, then the allocation of the
\* destination (reflect.SliceOf panics on a nil type)
EnterStep(src, sample, f) ==
    IF SrcReflectKind # KindSlice THEN Return(f, NilSlice, <<ErrNotSlice>>)
    ELSE IF src.isNil THEN Return(f, NilSlice, <<ErrNil>>)
    ELSE IF Len(src.elems) = 0 THEN Return(f, MkSlice(<<>>), <<>>)
    ELSE LET dt == TypeOf(sample)
         IN  IF dt = NilType THEN Panic([f EXCEPT !.destType = dt])
             ELSE [f EXCEPT !.destType = dt,
                            !.destSlice = [k \in 1..Len(src.elems) |-> Zero(dt)],
                            !.pc = "loop"]

\* IterateStep that hands back what was converted so far with the error.
IterateStepPartial(src, sample, f) ==
    LET r == ConvertElem(src.elems[f.i + 1], f.destType, f.i)
    IN  IF r.st = "err" THEN Return(f, MkSlice(SubSeq(f.destSlice, 1, f.i)), <<r.err>>)
        ELSE [f EXCEPT !.destSlice[f.i + 1] = r.val, !.i = f.i + 1]

\* The iteration that gives a null element the value of the element
\* converted before it.
IterateStepCarry(src, sample, f) ==
    LET r == ConvertElem(src.elems[f.i + 1], f.destType, f.i)
    IN  IF r.st = "err" THEN Return(f, NilSlice, <<r.err>>)
        ELSE IF f.i > 0 /\ ~IsValid(Unwrap(src.elems[f.i + 1]))
        THEN [f EXCEPT !.destSlice[f.i + 1] = f.destSlice[f.i], !.i = f.i + 1]
        ELSE [f EXCEPT !.destSlice[f.i + 1] = r.val, !.i = f.i + 1]

\* Lines 202-259: one iteration of the loop over srcSlice
IterateStep(src, sample, f) ==
    LET r == ConvertElem(src.elems[f.i + 1], f.destType, f.i)
    IN  IF r.st = "err" THEN Return(f, NilSlice, <<r.err>>)
        ELSE [f EXCEPT !.destSlice[f.i + 1] = r.val, !.i = f.i + 1]

\* FinishStep that leaves the null elements of the source out of the result.
FinishStepSkipNull(src, sample, f) ==
    LET kept == {k \in 1..Len(src.elems) : IsValid(Unwrap(src.elems[k]))}
        Nth[n \in 0..Len(src.elems)] ==
            IF n = 0 THEN 0 ELSE CHOOSE k \in kept : k > Nth[n - 1] /\ \A m \in kept : m > Nth[n - 1] => k <= m
    IN  IF f.destType = sample.t
        THEN Return(f, MkSlice([n \in 1..Cardinality(kept) |-> f.destSlice[Nth[n]]]), <<>>)
        ELSE Panic(f)

\* Line 260: destSlice.Interface().([]Y) panics unless the reflect-made
\* slice is a []Y, Y being the static type of the sample
FinishStep(src, sample, f) ==
    IF f.destType = sample.t THEN Return(f, MkSlice(f.destSlice), <<>>) ELSE Panic(f)

RECURSIVE Run(_, _, _)
\* The call run to its end from frame f.
Run(src, sample, f) ==
    IF f.pc = "done" THEN f
    ELSE IF f.pc = "start" THEN Run(src, sample, EnterStep(src, sample, f))
    ELSE IF f.i < Len(src.elems) THEN Run(src, sample, IterateStep(src, sample, f))
    ELSE Run(src, sample, FinishStep(src, sample, f))

(***************************************************************************)
(* The backing arrays of the call: "src" under srcSlice, "new" made by     *)
(* reflect.MakeSlice at line 200, and the empty literal of line 196.       *)
(***************************************************************************)
\* The arrays as the call finds them.
Arrays(src) == [src |-> src.elems, new |-> <<>>]

\* The destination made on the source's array when T and Y are one type.
MakeSliceInPlace(t, dt) == IF t = dt THEN "src" ELSE "new"

\* Line 200: the array reflect.MakeSlice allocates for destSlice
MakeSlice(t, dt) == "new"

\* Lines 206, 213, 221, 259: destSlice.Index(i).Set writes to the array
\* of destSlice; nothing else is written
Stored(t, arrays, f) ==
    IF f.destType = NilType THEN arrays
    ELSE [arrays EXCEPT ![MakeSlice(t, f.destType)] = f.destSlice]

\* Lines 190-196, 261: the array under the slice the call returns
ReturnedArray(t, f) ==
    IF f.pc # "done" \/ f.outcome # "ok" \/ f.retSlice.isNil THEN "none"
    ELSE IF f.destType = NilType THEN "literal"
    ELSE MakeSlice(t, f.destType)

\* The result of safetool.ConvertSlice(src, sample).
ConvertSlice(src, sample) ==
    LET f == Run(src, sample, StartFrame)
    IN  [outcome |-> f.outcome, retSlice |-> f.retSlice, retErr |-> f.retErr]

(***************************************************************************)
(* tool.ConvertSlice[T, Y](srcSlice, destTypedValue) []Y (src/tool.go):    *)
(* the same frame, with no error to return.  A panic keeps its value where *)
(* a returned error would be.                                              *)
(***************************************************************************)
\* panic(v)
PanicWith(f, v) == [f EXCEPT !.pc = "done", !.outcome = "panic", !.retErr = <<v>>]

\* The values package reflect and the run time panic with.
PanicNotSlice == Errorf("srcSlice is not a slice", <<>>)

PanicNilType == Errorf("runtime error: invalid memory address or nil pointer dereference", <<>>)

PanicZeroValue == Errorf("reflect: call of reflect.Value.Type on zero Value", <<>>)

PanicNumField == Errorf("reflect: call of reflect.Value.NumField on %s Value", <<>>)

PanicFieldByName == Errorf("reflect: call of reflect.Value.FieldByName on %s Value", <<>>)

PanicUnexported ==
    Errorf("reflect: reflect.Value.Set using value obtained using unexported field", <<>>)

PanicAssertion == Errorf("interface conversion: interface {} is %s, not %s", <<>>)

\* An iteration of the loop that panics with e.
PanicElem(e) == [st |-> "panic", val |-> InvalidValue, err |-> e]

\* reflect.Indirect(v): the pointee of a pointer, v itself otherwise
Indirect(v) == IF IsValid(v) /\ Kind(v.t) = KindPtr THEN Elem(v) ELSE v

RECURSIVE LooseCopyFields(_, _, _)
\* src/tool.go lines 403-409 from field j on: a same-named field of an
\* assignable type is set (Set panics on an unexported field), any other
\* field is passed over
LooseCopyFields(srcVal, destVal, j) ==
    IF j > Len(Fields(srcVal.t)) THEN SetElem(destVal)
    ELSE LET srcField == Fields(srcVal.t)[j]
         IN  IF Kind(destVal.t) # KindStruct THEN PanicElem(PanicFieldByName)
             ELSE IF /\ srcField.name \in FieldNames(destVal.t)
                     /\ AssignableTo(srcField.typ, FieldType(destVal.t, srcField.name))
             THEN IF ~IsExported(srcField.name) THEN PanicElem(PanicUnexported)
                  ELSE LooseCopyFields(srcVal,
                                       Val(destVal.t,
                                           [destVal.v EXCEPT ![srcField.name] =
                                               AssignTo(srcVal.v[srcField.name],
                                                        FieldType(destVal.t, srcField.name))]),
                                       j + 1)
             ELSE LooseCopyFields(srcVal, destVal, j + 1)

\* src/tool.go lines 395-410: the body of the loop for element x
LooseConvertElem(x, dt) ==
    LET srcVal == Indirect(ValueOf(x))
    IN  IF ~IsValid(srcVal) THEN PanicElem(PanicZeroValue)
        ELSE IF ConvertibleTo(srcVal.t, dt) THEN SetElem(Convert(srcVal, dt))
        ELSE IF AssignableTo(srcVal.t, dt) THEN SetElem(AssignTo(srcVal, dt))
        ELSE IF Kind(srcVal.t) # KindStruct THEN PanicElem(PanicNumField)
        ELSE LooseCopyFields(srcVal, Zero(dt), 1)

\* src/tool.go lines 383-393: a nil source is handed back as nil
LooseEnterStep(src, sample, f) ==
    IF SrcReflectKind # KindSlice THEN PanicWith(f, PanicNotSlice)
    ELSE IF src.isNil THEN Return(f, NilSlice, <<>>)
    ELSE IF Len(src.elems) = 0 THEN Return(f, MkSlice(<<>>), <<>>)
    ELSE LET dt == TypeOf(sample)
         IN  IF dt = NilType THEN PanicWith([f EXCEPT !.destType = dt], PanicNilType)
             ELSE [f EXCEPT !.destType = dt,
                            !.destSlice = [k \in 1..Len(src.elems) |-> Zero(dt)],
                            !.pc = "loop"]

\* src/tool.go lines 394-412: one iteration of the loop
LooseIterateStep(src, sample, f) ==
    LET r == LooseConvertElem(src.elems[f.i + 1], f.destType)
    IN  IF r.st = "panic" THEN PanicWith(f, r.err)
        ELSE [f EXCEPT !.destSlice[f.i + 1] = r.val, !.i = f.i + 1]

\* src/tool.go line 413: destSlice.Interface().([]Y)
LooseFinishStep(src, sample, f) ==
    IF f.destType = sample.t THEN Return(f, MkSlice(f.destSlice), <<>>)
    ELSE PanicWith(f, PanicAssertion)

RECURSIVE LooseRun(_, _, _)
\* The loose call run to its end from frame f.
LooseRun(src, sample, f) ==
    IF f.pc = "done" THEN f
    ELSE IF f.pc = "start" THEN LooseRun(src, sample, LooseEnterStep(src, sample, f))
    ELSE IF f.i < Len(src.elems) THEN LooseRun(src, sample, LooseIterateStep(src, sample, f))
    ELSE LooseRun(src, sample, LooseFinishStep(src, sample, f))

\* The result of tool.ConvertSlice(src, sample): the slice, or the panic.
LooseConvertSlice(src, sample) ==
    LET f == LooseRun(src, sample, StartFrame)
    IN  [outcome |-> f.outcome, retSlice |-> f.retSlice, retErr |-> f.retErr]

VARIABLES
    T,                \* the static element type of srcSlice
    srcSlice,         \* [isNil, elems]: the source slice
    destTypedValue,   \* the sample; its static type is Y
    destType,         \* reflect.TypeOf(destTypedValue)
    destSlice,        \* the elements of the reflect-made destination slice
    i,                \* the loop index (Go index, from 0)
    pc,               \* "start", "loop" or "done"
    outcome,          \* "none", then "ok", "err" or "panic"
    retSlice,         \* the returned []Y as [isNil, elems]
    retErr,           \* the returned error: <<>> for nil, else <<error>>
    backing,          \* [src, new]: what the backing arrays hold
    retArray          \* the backing array of the returned slice

\* The variables of the call of ConvertSlice.
convertVars ==
    <<T, srcSlice, destTypedValue, destType, destSlice, i, pc, outcome, retSlice, retErr,
      backing, retArray>>

\* A function g that runs `defer Catch(fn)` and then one statement.
VARIABLES
    body,             \* the statement of g after the defer
    cpc,              \* "body", "deferred", then "returned" or "panicked"
    panicking,        \* the panic in flight: <<>> for none, else <<value>>
    caught,           \* the errors fn was called with, in order
    got               \* what MustReturn handed back: <<>> or <<val>>

catchVars == <<body, cpc, panicking, caught, got>>

VARIABLES
    logged            \* the lines the package logger printed

\* A call of RetryFunc(attempts, sleep, f).
VARIABLES
    attempts,         \* the argument attempts, of the signed type num
    sleep,            \* the argument sleep
    retryI,           \* the loop counter i, of type num
    lastErr,          \* lastErr: <<>> for nil, else <<error>>
    results,          \* what the calls of f returned so far, in order
    slept,            \* the durations of the calls of time.Sleep so far
    rpc,              \* "loop", "failed" (f returned an error) or "done"
    retryRet          \* the error returned: <<>> for nil, else <<error>>

retryVars == <<attempts, sleep, retryI, lastErr, results, slept, rpc, retryRet>>

\* A call of Recoverer(maxPanics, f, jobID...).
VARIABLES
    maxPanics,        \* the argument maxPanics of the outermost call
    jobID,            \* the argument jobID
    stack,            \* the calls of Recoverer under way, the innermost last
    outcomes,         \* how the invocations of f ended: <<>> or <<panic value>>
    kpc,              \* "call", "return", then "done" or "panicked"
    recovErr          \* the result recovErr on its way up: <<>> or <<error>>

recovererVars == <<maxPanics, jobID, stack, outcomes, kpc, recovErr>>

VARIABLES min, max, readerFails, ipc, randVal, randErr

randVars == <<min, max, readerFails, ipc, randVal, randErr>>

VARIABLES subjectArg, oldToNew, subject, ranged, tpc

strtrVars == <<subjectArg, oldToNew, subject, ranged, tpc>>

VARIABLES templateText, templateVars, tpl, tplErr, buf, xpc, rendered

execVars == <<templateText, templateVars, tpl, tplErr, buf, xpc, rendered>>

vars == <<convertVars, catchVars, logged, retryVars, recovererVars, randVars, strtrVars, execVars>>

\* The static type parameter Y.
Y == destTypedValue.t

\* The frame of the call in the current state.
Frame ==
    [destType |-> destType, destSlice |-> destSlice, i |-> i, pc |-> pc,
     outcome |-> outcome, retSlice |-> retSlice, retErr |-> retErr]

\* The call moves to frame f; its arguments are left alone.
Becomes(f) ==
    /\ destType' = f.destType
    /\ destSlice' = f.destSlice
    /\ i' = f.i
    /\ pc' = f.pc
    /\ outcome' = f.outcome
    /\ retSlice' = f.retSlice
    /\ retErr' = f.retErr
    /\ backing' = Stored(T, backing, f)
    /\ retArray' = ReturnedArray(T, f)
    /\ UNCHANGED <<T, srcSlice, destTypedValue>>
    /\ UNCHANGED <<execVars, strtrVars, randVars, catchVars, logged, retryVars, recovererVars>>

SrcTypes == Types

\* The samples: the zero value of every type, a second value of some
\* types, and for Y = any every dynamic type an interface holds.
DestSamples ==
    {Zero(t) : t \in Types}
        \cup {Val("int", 1), Val("string", "Alice"), Alice("SrcStruct"),
              Box("*int", Val("int", 1))}
        \cup AnyValues

Slices(t) == {NilSlice} \cup {MkSlice(e) : e \in UNION {[1..n -> Values(t)] : n \in 0..MaxLen}}

\* No function with a deferred Catch is running.
NoBody == [op |-> "none", err |-> <<>>, verbose |-> <<>>, v |-> <<>>]

CatchIdle ==
    /\ body = NoBody
    /\ cpc = "idle"
    /\ panicking = <<>>
    /\ caught = <<>>
    /\ got = <<>>

\* No call of RetryFunc is running.
RetryIdle ==
    /\ attempts = 0
    /\ sleep = 0
    /\ retryI = 0
    /\ lastErr = <<>>
    /\ results = <<>>
    /\ slept = <<>>
    /\ rpc = "idle"
    /\ retryRet = <<>>

\* No call of Recoverer is running.
RecovererIdle ==
    /\ maxPanics = 0
    /\ jobID = <<>>
    /\ stack = <<>>
    /\ outcomes = <<>>
    /\ kpc = "idle"
    /\ recovErr = <<>>

\* No call of ConvertSlice is running.
RandIdle ==
    /\ min = 0
    /\ max = 0
    /\ readerFails = FALSE
    /\ ipc = "idle"
    /\ randVal = 0
    /\ randErr = <<>>

StrtrIdle ==
    /\ subjectArg = <<>>
    /\ oldToNew = <<>>
    /\ subject = <<>>
    /\ ranged = {}
    /\ tpc = "idle"

ExecIdle ==
    /\ templateText = <<>>
    /\ templateVars = Val("string", "")
    /\ tpl = <<>>
    /\ tplErr = <<>>
    /\ buf = <<>>
    /\ xpc = "idle"
    /\ rendered = <<>>

ConvertIdle ==
    /\ T = "int"
    /\ srcSlice = NilSlice
    /\ destTypedValue = Zero("int")
    /\ destType = StartFrame.destType
    /\ destSlice = StartFrame.destSlice
    /\ i = StartFrame.i
    /\ pc = "idle"
    /\ outcome = StartFrame.outcome
    /\ retSlice = StartFrame.retSlice
    /\ retErr = StartFrame.retErr
    /\ backing = Arrays(srcSlice)
    /\ retArray = "none"

Init ==
    /\ T \in SrcTypes
    /\ srcSlice \in Slices(T)
    /\ destTypedValue \in DestSamples
    /\ destType = StartFrame.destType
    /\ destSlice = StartFrame.destSlice
    /\ i = StartFrame.i
    /\ pc = StartFrame.pc
    /\ outcome = StartFrame.outcome
    /\ retSlice = StartFrame.retSlice
    /\ retErr = StartFrame.retErr
    /\ backing = Arrays(srcSlice)
    /\ retArray = "none"
    /\ StrtrIdle
    /\ RandIdle
    /\ CatchIdle
    /\ logged = <<>>
    /\ RetryIdle
    /\ RecovererIdle
    /\ ExecIdle

Enter ==
    /\ pc = "start"
    /\ Becomes(EnterStep(srcSlice, destTypedValue, Frame))

Iterate ==
    /\ pc = "loop"
    /\ i < Len(srcSlice.elems)
    /\ Becomes(IterateStep(srcSlice, destTypedValue, Frame))

Finish ==
    /\ pc = "loop"
    /\ i = Len(srcSlice.elems)
    /\ Becomes(FinishStep(srcSlice, destTypedValue, Frame))

Next == Enter \/ Iterate \/ Finish

Spec == Init /\ [][Next]_vars

(***************************************************************************)
(* The call of tool.ConvertSlice, on the same arguments.                   *)
(***************************************************************************)
LooseEnter ==
    /\ pc = "start"
    /\ Becomes(LooseEnterStep(srcSlice, destTypedValue, Frame))

LooseIterate ==
    /\ pc = "loop"
    /\ i < Len(srcSlice.elems)
    /\ Becomes(LooseIterateStep(srcSlice, destTypedValue, Frame))

LooseFinish ==
    /\ pc = "loop"
    /\ i = Len(srcSlice.elems)
    /\ Becomes(LooseFinishStep(srcSlice, destTypedValue, Frame))

NextLoose == LooseEnter \/ LooseIterate \/ LooseFinish

SpecLoose == Init /\ [][NextLoose]_vars

\* The call has ended.
Done == pc = "done"

(***************************************************************************)
(* Properties of safetool.ConvertSlice.                                    *)
(***************************************************************************)
\* N: the length of the source slice.
N == Len(srcSlice.elems)

\* The error the call returned (when retErr is not nil).
TheErr == retErr[1]

\* C1: a call on a non-nil source of length N that returns, returns either
\* N elements with a nil error or an error; a slice of another length is
\* never returned.
C1_LengthOrError ==
    (Done /\ ~srcSlice.isNil /\ outcome # "panic") =>
        \/ outcome = "ok" /\ retErr = <<>> /\ ~retSlice.isNil /\ Len(retSlice.elems) = N
        \/ outcome = "err" /\ retErr # <<>> /\ Len(retSlice.elems) = 0

\* A call on three elements, one of them null, returned three elements.
C1_Witness ==
    /\ Done /\ outcome = "ok" /\ N = 3 /\ Len(retSlice.elems) = 3
    /\ \E k \in 1..N : ~IsValid(Unwrap(srcSlice.elems[k]))

\* C2: a nil source fails for every destination type with a nil result and
\* the error "srcSlice is nil"; it is never taken for an empty slice.
C2_NilSourceFails ==
    (Done /\ srcSlice.isNil) =>
        /\ outcome = "err"
        /\ retSlice = NilSlice
        /\ retErr = <<Errorf("srcSlice is nil", <<>>)>>

\* A nil source was rejected although the sample has no type at all.
C2_Witness ==
    /\ Done /\ srcSlice.isNil /\ destTypedValue = NilOf("any")
    /\ outcome = "err" /\ TheErr.format = "srcSlice is nil"

\* C3: an empty, non-nil source gives a non-nil slice of length zero and no
\* error, for every destination type.
C3_EmptySource ==
    (Done /\ ~srcSlice.isNil /\ N = 0) =>
        /\ outcome = "ok"
        /\ ~retSlice.isNil
        /\ Len(retSlice.elems) = 0
        /\ retErr = <<>>

\* An empty source was converted although the sample has no type at all.
C3_Witness ==
    /\ Done /\ ~srcSlice.isNil /\ N = 0 /\ destTypedValue = NilOf("any")
    /\ outcome = "ok" /\ ~retSlice.isNil

\* The element at Go index k cannot be converted to the type of the sample.
Unconvertible(k) ==
    /\ TypeOf(destTypedValue) # NilType
    /\ ConvertElem(srcSlice.elems[k + 1], TypeOf(destTypedValue), k).st = "err"

\* The smallest Go index whose element cannot be converted.
FirstUnconvertible ==
    CHOOSE k \in 0..(N - 1) : Unconvertible(k) /\ \A m \in 0..(k - 1) : ~Unconvertible(m)

\* C4: fail-fast with no partial result: when some element cannot be
\* converted the call returns a nil slice and an error whose index is the
\* smallest unconvertible index, and the loop went no further than it.
C4_FailFast ==
    (Done /\ \E k \in 0..(N - 1) : Unconvertible(k)) =>
        /\ outcome = "err"
        /\ retSlice = NilSlice
        /\ TheErr.args[1] = FirstUnconvertible
        /\ i = FirstUnconvertible

\* Two elements cannot be converted, the first of them after a converted
\* one: the error names the first.
C4_Witness ==
    /\ Done /\ N = 3 /\ ~Unconvertible(0) /\ Unconvertible(1) /\ Unconvertible(2)
    /\ outcome = "err" /\ TheErr.args[1] = 1

\* A null element: a nil pointer (also when an interface holds it), a nil
\* interface, or a pointer to an empty interface.
IsNullElem(x) ==
    \/ Kind(x.t) \in {KindPtr, KindInterface} /\ IsNilVal(x)
    \/ /\ Kind(x.t) = KindInterface /\ ~IsNilVal(x)
       /\ Kind(x.v[1].t) = KindPtr /\ IsNilVal(x.v[1])
    \/ /\ Kind(x.t) = KindPtr /\ ~IsNilVal(x)
       /\ Kind(x.v[1].t) = KindInterface /\ IsNilVal(x.v[1])

NotNullElem(x) == ~IsNullElem(x)

\* The Go indexes of the populated elements, and the source without its
\* null elements.
Populated == {k \in 0..(N - 1) : NotNullElem(srcSlice.elems[k + 1])}

PopulatedInOrder == SelectSeq([k \in 1..N |-> k - 1], LAMBDA k : k \in Populated)

WithoutNulls == MkSlice(SelectSeq(srcSlice.elems, NotNullElem))

\* C5: a null element never causes an error: an error is never at a null
\* element and a source that converts without its null elements does not
\* fail with them; in a result the element at a null index is the zero
\* value of the destination type and the populated elements are converted
\* as they are without the null elements.
C5_NullElements ==
    (Done /\ ~srcSlice.isNil /\ N > 0) =>
        LET r == ConvertSlice(WithoutNulls, destTypedValue)
        IN  /\ outcome = "err" =>
                   /\ TheErr.args[1] \in Populated
                   /\ r.outcome = "err"
                   /\ r.retErr[1].format = TheErr.format
            /\ outcome = "ok" =>
                   /\ r.outcome = "ok"
                   /\ \A k \in (0..(N - 1)) \ Populated :
                          retSlice.elems[k + 1] = Zero(destType)
                   /\ Len(r.retSlice.elems) = Len(PopulatedInOrder)
                   /\ \A n \in 1..Len(PopulatedInOrder) :
                          retSlice.elems[PopulatedInOrder[n] + 1] = r.retSlice.elems[n]

\* A null element between two populated ones: the call succeeded, the
\* middle element is zero and the others are not.
C5_Witness ==
    /\ Done /\ outcome = "ok" /\ N = 3 /\ Populated = {0, 2}
    /\ retSlice.elems[2] = Zero(destType)
    /\ retSlice.elems[1] # Zero(destType)
    /\ retSlice.elems[3] # Zero(destType)

\* The kinds the claim calls numeric or boolean.
NumericKinds == {KindBool} \cup (KindInt..KindUintptr) \cup (KindFloat32..KindComplex128)

\* The element at Go index k, dereferenced and unwrapped, is of a numeric
\* or boolean kind.
NumericElem(k) ==
    LET v == Unwrap(srcSlice.elems[k + 1])
    IN  IsValid(v) /\ Kind(v.t) \in NumericKinds

FirstNumeric == CHOOSE k \in 0..(N - 1) : NumericElem(k) /\ \A m \in 0..(k - 1) : ~NumericElem(m)

\* C6: with a destination type of string kind, a non-null element of a
\* numeric or boolean kind always makes the call fail with a conversion
\* error (the guard's own error when no earlier element has failed); no
\* string is made from it.
C6_NumericToStringFails ==
    (/\ Done /\ ~srcSlice.isNil
     /\ Kind(TypeOf(destTypedValue)) = KindString
     /\ \E k \in 0..(N - 1) : NumericElem(k)) =>
        /\ outcome = "err"
        /\ retSlice = NilSlice
        /\ TheErr.format \in {FmtNumericToString, FmtFieldMismatch, FmtNoStrategy}
        /\ TheErr.args[1] <= FirstNumeric
        /\ TheErr.args[1] = FirstNumeric =>
               TheErr = Errorf(FmtNumericToString,
                               <<FirstNumeric, Unwrap(srcSlice.elems[FirstNumeric + 1]).t>>)

\* An unsigned element, which the language converts to a string, was
\* rejected for a named string destination.
C6_Witness ==
    /\ Done /\ T = "uint8" /\ Y = "Varchar" /\ N > 0
    /\ outcome = "err" /\ TheErr.format = FmtNumericToString

\* The element at Go index k goes through the field-by-field copy: both
\* sides are structs and neither conversion nor assignment applies.
FieldCopyElem(k) ==
    LET v == Unwrap(srcSlice.elems[k + 1])
        dt == TypeOf(destTypedValue)
    IN  /\ IsValid(v) /\ dt # NilType
        /\ Kind(v.t) = KindStruct /\ Kind(dt) = KindStruct
        /\ ~ConvertibleTo(v.t, dt) /\ ~AssignableTo(v.t, dt)

\* The struct type of the element at Go index k.
SrcStructType(k) == Unwrap(srcSlice.elems[k + 1]).t

SharedFields(k) == FieldNames(SrcStructType(k)) \cap FieldNames(TypeOf(destTypedValue))

\* Field n is on both sides and the source type is not assignable to the
\* destination type.
Mismatch(k, n) ==
    /\ n \in SharedFields(k)
    /\ ~AssignableTo(FieldType(SrcStructType(k), n), FieldType(TypeOf(destTypedValue), n))

\* The first field of the source struct, in declaration order, that is
\* exported and mismatched.
FirstMismatch(k) ==
    LET fs == Fields(SrcStructType(k))
        j == CHOOSE a \in 1..Len(fs) :
                 /\ IsExported(fs[a].name) /\ Mismatch(k, fs[a].name)
                 /\ \A b \in 1..(a - 1) : ~(IsExported(fs[b].name) /\ Mismatch(k, fs[b].name))
    IN  fs[j].name

\* C7 as stated: a same-named field whose source type is not assignable,
\* exported or not, makes the call fail.
C7_AnyFieldMismatchFails ==
    (Done /\ ~srcSlice.isNil
     /\ \E k \in 0..(N - 1) : FieldCopyElem(k) /\ \E n \in SharedFields(k) : Mismatch(k, n)) =>
        outcome = "err"

\* C7 (amended): a same-named exported field whose source type is not
\* assignable makes the whole call fail, with an error naming the element
\* index and the field when this element is the first to fail; a
\* same-named unexported field is skipped and causes no error.
C7_ExportedFieldMismatchFails ==
    (Done /\ ~srcSlice.isNil) =>
        \A k \in 0..(N - 1) :
            FieldCopyElem(k) =>
                IF \E n \in SharedFields(k) : IsExported(n) /\ Mismatch(k, n)
                THEN /\ outcome = "err"
                     /\ retSlice = NilSlice
                     /\ TheErr.args[1] <= k
                     /\ TheErr.args[1] = k =>
                            TheErr = Errorf(FmtFieldMismatch,
                                            <<k, FirstMismatch(k),
                                              FieldType(SrcStructType(k), FirstMismatch(k)),
                                              FieldType(TypeOf(destTypedValue), FirstMismatch(k))>>)
                ELSE ~Unconvertible(k)

\* The second element has an exported field of another type than the
\* destination's: the call failed naming index 1 and the field.
C7_Witness ==
    /\ Done /\ N >= 2 /\ FieldCopyElem(1) /\ Mismatch(1, "Val") /\ ~Unconvertible(0)
    /\ outcome = "err"
    /\ TheErr.format = FmtFieldMismatch /\ TheErr.args[1] = 1 /\ TheErr.args[2] = "Val"

\* Destination field n of the converted element k holds the value of the
\* same-named assignable source field, or zero when the source has no such
\* field; with exemptUnexported an unexported field is zero instead.
FieldAsClaimed(k, n, exemptUnexported) ==
    LET src == Unwrap(srcSlice.elems[k + 1])
        dst == retSlice.elems[k + 1]
        dt == TypeOf(destTypedValue)
    IN  IF exemptUnexported /\ ~IsExported(n) THEN dst.v[n] = Zero(FieldType(dt, n))
        ELSE IF n \in FieldNames(src.t)
        THEN AssignableTo(FieldType(src.t, n), FieldType(dt, n)) =>
                 /\ ValueOf(dst.v[n]) = ValueOf(src.v[n])
                 /\ dst.v[n].t = FieldType(dt, n)
        ELSE dst.v[n] = Zero(FieldType(dt, n))

\* C8 as stated: after a successful field copy every destination field
\* with a same-named assignable source field holds the source's value and
\* every destination field without a same-named source field is zero.
C8_FieldCopyAllFields ==
    (Done /\ outcome = "ok") =>
        \A k \in 0..(N - 1) :
            FieldCopyElem(k) =>
                \A n \in FieldNames(TypeOf(destTypedValue)) : FieldAsClaimed(k, n, FALSE)

\* C8 (amended): after a successful field copy every exported destination
\* field with a same-named assignable source field holds the source's
\* value, every destination field without a same-named source field is
\* zero, and every unexported destination field is zero; the result has
\* the destination type, so the other source fields are dropped.
C8_FieldCopyExportedFields ==
    (Done /\ outcome = "ok") =>
        \A k \in 0..(N - 1) :
            FieldCopyElem(k) =>
                /\ retSlice.elems[k + 1].t = TypeOf(destTypedValue)
                /\ DOMAIN retSlice.elems[k + 1].v = FieldNames(TypeOf(destTypedValue))
                /\ \A n \in FieldNames(TypeOf(destTypedValue)) : FieldAsClaimed(k, n, TRUE)

\* A two-field struct was copied into a three-field struct: two fields
\* copied, the third zero.
C8_Witness ==
    /\ Done /\ outcome = "ok" /\ T = "DestStructSimple" /\ Y = "SrcStruct" /\ N >= 1
    /\ FieldCopyElem(0)
    /\ retSlice.elems[1].v["ID"] = Val("int", 1)
    /\ retSlice.elems[1].v["Name"] = Val("string", "Alice")
    /\ retSlice.elems[1].v["Val"] = Val("float64", 0)

\* C9 as stated: for every element type R, a non-nil []R converted with a
\* sample of type R succeeds and gives the elements of the source in order
\* (checked on the calls that return).
C9_IdentityAnyType ==
    (Done /\ ~srcSlice.isNil /\ Y = T /\ outcome # "panic") =>
        outcome = "ok" /\ retSlice = MkSlice(srcSlice.elems)

\* C9 (amended): for every element type R that is neither a pointer type
\* nor an interface type, a non-nil []R converted with a sample of type R
\* succeeds and gives the elements of the source in order.
C9_IdentityValueTypes ==
    (Done /\ ~srcSlice.isNil /\ Y = T /\ Kind(T) \notin {KindPtr, KindInterface}) =>
        outcome = "ok" /\ retSlice = MkSlice(srcSlice.elems)

\* Three structs with an unexported field, not all zero, came back equal.
C9_Witness ==
    /\ Done /\ T = "privStruct" /\ Y = "privStruct" /\ N = 3
    /\ srcSlice.elems[1] # Zero(T)
    /\ outcome = "ok" /\ retSlice.elems = srcSlice.elems

\* The source is a slice of non-nil pointers; the slice of what they point to.
AllNonNilPointers ==
    /\ ~srcSlice.isNil /\ Kind(T) = KindPtr
    /\ \A k \in 1..N : ~IsNilVal(srcSlice.elems[k])

Pointees == MkSlice([k \in 1..N |-> srcSlice.elems[k].v[1]])

\* The result of the call in the current state.
Result == [outcome |-> outcome, retSlice |-> retSlice, retErr |-> retErr]

\* C10 as stated: a slice of non-nil pointers converts as the slice of the
\* pointed-to values does.
C10_DerefAnyPointee ==
    (Done /\ AllNonNilPointers) => Result = ConvertSlice(Pointees, destTypedValue)

\* x is neither a pointer nor an interface that holds a pointer.
PlainPointee(x) ==
    /\ Kind(x.t) # KindPtr
    /\ ~(Kind(x.t) = KindInterface /\ ~IsNilVal(x) /\ Kind(x.v[1].t) = KindPtr)

\* C10 (amended): a slice of non-nil pointers to values that are neither
\* pointers nor interfaces holding a pointer converts as the slice of the
\* pointed-to values does: same elements, or the same error at the same
\* index.
C10_DerefPlainPointee ==
    (Done /\ AllNonNilPointers /\ \A k \in 1..N : PlainPointee(srcSlice.elems[k].v[1])) =>
        Result = ConvertSlice(Pointees, destTypedValue)

\* Pointers to the ints 1, 2, 1 with a float64 sample gave 1.0, 2.0, 1.0.
C10_Witness ==
    /\ Done /\ T = "*int" /\ Y = "float64" /\ AllNonNilPointers
    /\ Pointees.elems = <<Val("int", 1), Val("int", 2), Val("int", 1)>>
    /\ outcome = "ok"
    /\ retSlice.elems = <<Val("float64", 10), Val("float64", 20), Val("float64", 10)>>

(***************************************************************************)
(* More properties of safetool.ConvertSlice.                               *)
(***************************************************************************)
\* C12: safetool.ConvertSlice never panics: for every source and every
\* sample, samples of interface type included, the call ends by returning
\* a slice with a nil error or a nil slice with an error.
C12_NeverPanics ==
    Done =>
        \/ outcome = "ok" /\ retErr = <<>>
        \/ outcome = "err" /\ retErr # <<>> /\ retSlice = NilSlice

\* C13: only the type of the sample is used: the call on the same source
\* with any other sample of the same type Y ends in the same way, with the
\* same slice and the same error.
C13_SampleValueIrrelevant ==
    Done =>
        \A y2 \in DestSamples :
            y2.t = Y =>
                ConvertSlice(srcSlice, y2) =
                    [outcome |-> outcome, retSlice |-> retSlice, retErr |-> retErr]

\* The call returned an element-conversion error (the error for a nil
\* source is not one).
ElementError == Done /\ outcome = "err" /\ ~srcSlice.isNil

\* The type names an error message spells out: its arguments after the
\* index, and the type names written in the text of its format.
NamedIn(e) ==
    {e.args[k] : k \in 2..Len(e.args)}
        \cup (IF e.format = FmtNumericToString THEN {"bool", "string"} ELSE {})

\* The failing element as the conversion saw it, and its type at run time.
FailedVal == Unwrap(srcSlice.elems[TheErr.args[1] + 1])

FailedElemType == TypeOf(srcSlice.elems[TheErr.args[1] + 1])

\* C14 as stated: on every failure path the error gives the index of the
\* failing element, the run-time type of the source element and the
\* destination type.
C14_ErrorNamesIndexAndTypes ==
    ElementError =>
        /\ TheErr.args[1] = FirstUnconvertible
        /\ {FailedVal.t, FailedElemType} \cap NamedIn(TheErr) # {}
        /\ destType \in NamedIn(TheErr)

\* C14 (amended): every element-conversion error gives the index of the
\* failing element; the no-strategy error names the type of the source
\* value and the destination type, the numeric/bool-to-string error names
\* the type of the source value and says "string" for a destination of
\* string kind, the field-mismatch error names the field and the types of
\* the two fields.
C14_ErrorNamesByPath ==
    ElementError =>
        /\ TheErr.args[1] = FirstUnconvertible
        /\ TheErr.format \in {FmtNoStrategy, FmtNumericToString, FmtFieldMismatch}
        /\ TheErr.format = FmtNoStrategy =>
               /\ Len(TheErr.args) = 3
               /\ TheErr.args[2] = FailedVal.t
               /\ TheErr.args[3] = destType
        /\ TheErr.format = FmtNumericToString =>
               /\ Len(TheErr.args) = 2
               /\ TheErr.args[2] = FailedVal.t
               /\ Kind(destType) = KindString
        /\ TheErr.format = FmtFieldMismatch =>
               /\ Len(TheErr.args) = 4
               /\ TheErr.args[2] \in SharedFields(TheErr.args[1])
               /\ TheErr.args[3] = FieldType(FailedVal.t, TheErr.args[2])
               /\ TheErr.args[4] = FieldType(destType, TheErr.args[2])

\* The second element failed on a field: the error names the field and its
\* two types, and neither struct type.
C14_Witness ==
    /\ ElementError /\ TheErr.format = FmtFieldMismatch /\ TheErr.args[1] = 1
    /\ TheErr.args[2] = "Val"
    /\ FailedVal.t \notin NamedIn(TheErr)
    /\ destType \notin NamedIn(TheErr)

(***************************************************************************)
(* Properties of tool.ConvertSlice.                                        *)
(***************************************************************************)
\* The error tool.ConvertSlice is said to panic with when the converter
\* fails with e.
Wrapped(e) == Errorf("ConvertSlice failed: %s", <<e>>)

\* C11: whenever the conversion of the arguments fails, the loose
\* tool.ConvertSlice panics with the error "ConvertSlice failed: " followed
\* by the converter's message; a nil source panics with
\* "ConvertSlice failed: srcSlice is nil".
C11_LoosePanicsWrapped ==
    Done =>
        LET r == ConvertSlice(srcSlice, destTypedValue)
        IN  r.outcome = "err" =>
                /\ outcome = "panic"
                /\ retErr = <<Wrapped(r.retErr[1])>>


(***************************************************************************)
(* tool.Must, tool.MustReturn and tool.Catch (src/tool.go), in a function  *)
(* g that defers Catch(fn) and then runs one statement.                    *)
(***************************************************************************)
\* errors.New(msg)
NewError(msg) == Val("*errors.errorString", msg)

Errs ==
    {NewError("catchable error from Must"), NewError("uncatchable error"),
     NewError("error"), NewError("some error")}

\* An error argument: <<>> for nil, else <<error>>.
OptErrs == {<<>>} \cup {<<e>> : e \in Errs}

\* The nil interface value.
NilValue == Val("nil", <<>>)

\* catchableError{err}
CatchableError(err) == Val("catchableError", err)

\* &catchableError{err}
CatchableErrorPtr(err) == Val("*catchableError", err)

\* The value the run time panics with for panic(nil) since Go 1.21.
PanicNilError == Val("*runtime.PanicNilError", "panic called with nil argument")

\* The arguments of the panic statements of the callers.
PanicArgs ==
    {NilValue, Val("string", "test"), Val("string", "boom")}
        \cup Errs \cup {CatchableErrorPtr(e) : e \in Errs}

\* panic(v): the values in flight afterwards.  panic(nil) carries nil up
\* to Go 1.20 and a *runtime.PanicNilError from Go 1.21 on.
Raised(v) == IF v.t = "nil" THEN {NilValue, PanicNilError} ELSE {v}

\* recover() in a deferred call, p being the panic in flight
Recover(p) == IF p = <<>> THEN NilValue ELSE p[1]

\* (*logger).LogError(err, msgs...): the line handed to Println
LogError(err, msgs) == [msgs |-> msgs, err |-> err]

\* Lines 99-106: Must(err, verbose...) panics with catchableError{err}
Must(err, verbose) ==
    IF err # <<>>
    THEN [panics |-> <<CatchableError(err[1])>>,
          logs |-> IF Len(verbose) > 0 /\ verbose[1] THEN <<LogError(err[1], <<>>)>>
                   ELSE <<>>]
    ELSE [panics |-> <<>>, logs |-> <<>>]

\* Lines 130-133: MustReturn(val, err)
MustReturn(val, err) ==
    LET m == Must(err, <<>>)
    IN  [panics |-> m.panics, logs |-> m.logs,
         val |-> IF m.panics = <<>> THEN <<val>> ELSE <<>>]

\* Catch that hands every recovered error to fn.
CatchAnyError(p) ==
    LET e == Recover(p)
    IN  IF e.t = "nil" THEN [called |-> <<>>, panics |-> <<>>]
        ELSE IF e.t = "*catchableError" THEN [called |-> <<e.v>>, panics |-> <<>>]
        ELSE IF e.t = "*errors.errorString" THEN [called |-> <<e>>, panics |-> <<>>]
        ELSE [called |-> <<>>, panics |-> <<e>>]

\* Lines 159-170: Catch(fn) run as a deferred call with panic p in flight:
\* the errors fn is called with and the panic Catch ends with
Catch(p) ==
    LET e == Recover(p)
    IN  IF e.t = "nil" THEN [called |-> <<>>, panics |-> <<>>]
        ELSE IF e.t = "*catchableError" THEN [called |-> <<e.v>>, panics |-> <<>>]
        ELSE [called |-> <<>>, panics |-> <<e>>]

\* The statements of g.
Bodies ==
    {[op |-> "Must", err |-> e, verbose |-> vb, v |-> <<>>] :
        e \in OptErrs, vb \in {<<>>, <<FALSE>>, <<TRUE>>}}
        \cup {[op |-> "MustReturn", err |-> e, verbose |-> <<>>, v |-> <<x>>] :
                 e \in OptErrs, x \in {Val("int", 0), Val("int", 1), Val("string", "Alice")}}
        \cup {[op |-> "panic", err |-> <<>>, verbose |-> <<>>, v |-> <<x>>] : x \in PanicArgs}
        \cup {[op |-> "return", err |-> <<>>, verbose |-> <<>>, v |-> <<>>]}

InitCatch ==
    /\ ConvertIdle
    /\ ExecIdle
    /\ StrtrIdle
    /\ RandIdle
    /\ RetryIdle
    /\ RecovererIdle
    /\ logged = <<>>
    /\ body \in Bodies
    /\ cpc = "body"
    /\ panicking = <<>>
    /\ caught = <<>>
    /\ got = <<>>

\* g runs Must(err, verbose...)
CallMust ==
    /\ cpc = "body" /\ body.op = "Must"
    /\ LET m == Must(body.err, body.verbose)
       IN  /\ panicking' = m.panics
           /\ logged' = logged \o m.logs
    /\ cpc' = "deferred"
    /\ UNCHANGED <<convertVars, execVars, strtrVars, randVars, retryVars, recovererVars, body, caught, got>>

\* g runs val = MustReturn(val, err)
CallMustReturn ==
    /\ cpc = "body" /\ body.op = "MustReturn"
    /\ LET m == MustReturn(body.v[1], body.err)
       IN  /\ panicking' = m.panics
           /\ logged' = logged \o m.logs
           /\ got' = m.val
    /\ cpc' = "deferred"
    /\ UNCHANGED <<convertVars, execVars, strtrVars, randVars, retryVars, recovererVars, body, caught>>

\* g runs panic(v)
CallPanic ==
    /\ cpc = "body" /\ body.op = "panic"
    /\ \E x \in Raised(body.v[1]) : panicking' = <<x>>
    /\ cpc' = "deferred"
    /\ UNCHANGED <<convertVars, execVars, strtrVars, randVars, retryVars, recovererVars, body, caught, got, logged>>

\* g has nothing else to run
ReturnPlain ==
    /\ cpc = "body" /\ body.op = "return"
    /\ cpc' = "deferred"
    /\ UNCHANGED <<convertVars, execVars, strtrVars, randVars, retryVars, recovererVars, body, panicking, caught, got, logged>>

\* g is left, by return or by panic: the deferred Catch(fn) runs
DeferredCatch ==
    /\ cpc = "deferred"
    /\ LET c == Catch(panicking)
       IN  /\ caught' = caught \o c.called
           /\ panicking' = c.panics
           /\ cpc' = IF c.panics = <<>> THEN "returned" ELSE "panicked"
    /\ UNCHANGED <<convertVars, execVars, strtrVars, randVars, retryVars, recovererVars, body, got, logged>>

NextCatch == CallMust \/ CallMustReturn \/ CallPanic \/ ReturnPlain \/ DeferredCatch

SpecCatch == InitCatch /\ [][NextCatch]_vars

(***************************************************************************)
(* Properties of Must and Catch.                                           *)
(***************************************************************************)
\* g was left: it returned to its caller or it panicked.
Left == cpc \in {"returned", "panicked"}

\* C15: the panic of Must(err) or MustReturn(val, err) with a non-nil err
\* is recovered by the deferred Catch(fn): fn is called exactly once, with
\* err, and g returns instead of panicking.
C15_MustPanicCaught ==
    (Left /\ body.op \in {"Must", "MustReturn"} /\ body.err # <<>>) =>
        /\ cpc = "returned"
        /\ panicking = <<>>
        /\ caught = body.err


\* g ran to the deferred call without any panic.
NoPanicBody ==
    \/ body.op = "return"
    \/ body.op \in {"Must", "MustReturn"} /\ body.err = <<>>

NumBits == 3

MaxCalls == 10

MaxNum == 2 ^ (NumBits - 1) - 1

MinNum == 0 - 2 ^ (NumBits - 1)

Num == MinNum..MaxNum

\* i++ on a value of type num
Inc(n) == IF n = MaxNum THEN MinNum ELSE n + 1

\* The values of sleep.
Durations == {0, 1, 5}

\* What f returns.
FResults == {<<>>, <<NewError("transient error")>>, <<NewError("persistent error")>>}

\* The loop test that takes a negative attempts for no attempt at all.
LoopCondCounted(n, att) == n <= att

\* Line 94: the loop test
LoopCond(n, att) == n <= att \/ att < 0

\* The test that gives up one attempt early.
LastAttemptEarly(n, att) == n + 1 >= att /\ att >= 0

\* Line 99: the test for the last attempt
LastAttempt(n, att) == n = att /\ att >= 0

InitRetry ==
    /\ ConvertIdle
    /\ ExecIdle
    /\ StrtrIdle
    /\ RandIdle
    /\ CatchIdle
    /\ RecovererIdle
    /\ logged = <<>>
    /\ attempts \in Num
    /\ sleep \in Durations
    /\ retryI = 0
    /\ lastErr = <<>>
    /\ results = <<>>
    /\ slept = <<>>
    /\ rpc = "loop"
    /\ retryRet = <<>>

\* Lines 94-98: the loop test, the call of f and the return on success
Attempt ==
    /\ rpc = "loop"
    /\ Len(results) < MaxCalls
    /\ IF LoopCond(retryI, attempts)
       THEN \E r \in FResults :
               /\ lastErr' = r
               /\ results' = Append(results, r)
               /\ IF r = <<>>
                  THEN rpc' = "done" /\ retryRet' = <<>>
                  ELSE rpc' = "failed" /\ UNCHANGED retryRet
       ELSE /\ rpc' = "done"
            /\ retryRet' = lastErr
            /\ UNCHANGED <<lastErr, results>>
    /\ UNCHANGED <<convertVars, execVars, strtrVars, randVars, catchVars, logged, recovererVars, attempts, sleep, retryI, slept>>

\* Lines 99-104: after an error of f, the return of the last error or the
\* sleep before the next attempt
Backoff ==
    /\ rpc = "failed"
    /\ IF LastAttempt(retryI, attempts)
       THEN /\ rpc' = "done"
            /\ retryRet' = lastErr
            /\ UNCHANGED <<retryI, slept>>
       ELSE /\ slept' = Append(slept, sleep)
            /\ retryI' = Inc(retryI)
            /\ rpc' = "loop"
            /\ UNCHANGED retryRet
    /\ UNCHANGED <<convertVars, execVars, strtrVars, randVars, catchVars, logged, recovererVars, attempts, sleep, lastErr, results>>

NextRetry == Attempt \/ Backoff

SpecRetry == InitRetry /\ [][NextRetry]_vars

(***************************************************************************)
(* Properties of safetool.RetryFunc.                                       *)
(***************************************************************************)
\* The number of calls of f so far.
Calls == Len(results)

\* Every call of f but the last returned an error.
OnlyLastMaySucceed == \A k \in 1..(Calls - 1) : results[k] # <<>>

\* C17: with attempts >= 0 f is called until it first returns nil or has
\* been called attempts+1 times: no call follows a success, RetryFunc
\* returns nil after a success and the last error after attempts+1
\* failures; attempts = 0 gives exactly one call.
C17_BoundedRetry ==
    (rpc # "idle" /\ attempts >= 0) =>
        /\ Calls <= attempts + 1
        /\ OnlyLastMaySucceed
        /\ (Calls > 0 /\ results[Calls] = <<>>) => (rpc = "done" /\ retryRet = <<>>)
        /\ rpc = "done" =>
               /\ Calls >= 1
               /\ results[Calls] # <<>> => (Calls = attempts + 1 /\ retryRet = results[Calls])
               /\ attempts = 0 => Calls = 1

\* With attempts = 2 f failed three times, the last time with another error
\* than before: two sleeps, and the last error is returned.
C17_Witness ==
    /\ rpc = "done" /\ attempts = 2 /\ Calls = 3
    /\ results[2] # results[3]
    /\ retryRet = results[3] /\ retryRet # <<>>
    /\ Len(slept) = 2

\* C18: with attempts < 0 the retries have no limit: RetryFunc never
\* returns an error, however many calls of f have failed; it returns nil
\* after the first call of f that returns nil, whichever call that is.
C18_UnboundedRetry ==
    (rpc # "idle" /\ attempts < 0) =>
        /\ OnlyLastMaySucceed
        /\ (Calls > 0 /\ results[Calls] = <<>>) => (rpc = "done" /\ retryRet = <<>>)
        /\ rpc = "done" => (Calls >= 1 /\ results[Calls] = <<>> /\ retryRet = <<>>)

\* With attempts = -1 f succeeded at its fifth call: RetryFunc returned nil
\* after five calls and four sleeps.
C18_Witness ==
    /\ rpc = "done" /\ attempts = 0 - 1 /\ Calls = 5
    /\ results[5] = <<>> /\ retryRet = <<>>
    /\ Len(slept) = 4

\* C19: exponential backoff: with a positive sleep the first wait is the
\* given sleep and every later wait is longer than the one before it.
C19_ExponentialBackoff ==
    (rpc # "idle" /\ sleep > 0) =>
        /\ Len(slept) >= 1 => slept[1] = sleep
        /\ \A k \in 2..Len(slept) : slept[k] > slept[k - 1]


(***************************************************************************)
(* tool.Recoverer[num](maxPanics, f, jobID...) (src/tool.go lines          *)
(* 210-227).  Each invocation of f completes or panics, as it likes.       *)
(***************************************************************************)
MaxDepth == 8

\* maxPanics-1 on a value of type num
Dec(n) == IF n = MinNum THEN MaxNum ELSE n - 1

\* What f panics with.
FPanicArgs == {NilValue, Val("string", "test"), Val("string", "again")}

JobIDs == {<<>>, <<"panic 0">>}

\* Line 213: the error made of the recovered value
PanicErr(jid, err) ==
    Errorf("job %spanics with message: %s, %s", <<jid, err, "identifyPanic()">>)

\* A call of Recoverer under way.
Call(mp) == [maxPanics |-> mp, panicErr |-> <<>>]

\* The deferred function that calls Recoverer again only above one.
DeferredOnlyAboveOne(mp, jid, p) ==
    LET err == Recover(p)
    IN  IF err.t = "nil"
        THEN [logs |-> <<>>, panicErr |-> <<>>, again |-> FALSE, panics |-> <<>>]
        ELSE [logs |-> <<LogError(PanicErr(jid, err), <<>>)>>,
              panicErr |-> <<PanicErr(jid, err)>>,
              again |-> mp > 1,
              panics |-> <<>>]

\* Lines 211-224, up to the call of Recoverer at line 217: the deferred
\* function of a call with maxPanics = mp, run with panic p in flight
Deferred(mp, jid, p) ==
    LET err == Recover(p)
    IN  IF err.t = "nil"
        THEN [logs |-> <<>>, panicErr |-> <<>>, again |-> FALSE, panics |-> <<>>]
        ELSE [logs |-> <<LogError(PanicErr(jid, err), <<>>)>>,
              panicErr |-> <<PanicErr(jid, err)>>,
              again |-> mp # 0,
              panics |-> <<>>]

\* The result that is always the error of the call's own panic.
RecovErrOwn(inner, panicErr) == panicErr

\* Lines 219-221: the result of a call whose f panicked, inner being what
\* the call of line 217 returned (nil when it was not made)
RecovErr(inner, panicErr) == IF inner = <<>> THEN panicErr ELSE inner

InitRecoverer ==
    /\ ConvertIdle
    /\ ExecIdle
    /\ StrtrIdle
    /\ RandIdle
    /\ CatchIdle
    /\ RetryIdle
    /\ logged = <<>>
    /\ maxPanics \in Num
    /\ jobID \in JobIDs
    /\ stack = <<Call(maxPanics)>>
    /\ outcomes = <<>>
    /\ kpc = "call"
    /\ recovErr = <<>>

\* Line 225-226: f() completes; the deferred function finds no panic
FCompletes ==
    /\ kpc = "call"
    /\ outcomes' = Append(outcomes, <<>>)
    /\ recovErr' = <<>>
    /\ kpc' = "return"
    /\ UNCHANGED <<convertVars, execVars, strtrVars, randVars, catchVars, retryVars, logged, maxPanics, jobID, stack>>

\* Line 225: f() panics; the deferred function runs, up to its return or
\* to the call of Recoverer(maxPanics-1, f, jobID...)
FPanics ==
    /\ kpc = "call"
    /\ \E v \in FPanicArgs : \E x \in Raised(v) :
          LET top == stack[Len(stack)]
              d == Deferred(top.maxPanics, jobID, <<x>>)
          IN  /\ d.again => Len(stack) < MaxDepth
              /\ outcomes' = Append(outcomes, <<x>>)
              /\ logged' = logged \o d.logs
              /\ IF d.panics # <<>>
                 THEN kpc' = "panicked" /\ UNCHANGED <<stack, recovErr>>
                 ELSE IF d.again
                 THEN /\ stack' = Append([stack EXCEPT ![Len(stack)].panicErr = d.panicErr],
                                         Call(Dec(top.maxPanics)))
                      /\ kpc' = "call"
                      /\ UNCHANGED recovErr
                 ELSE /\ recovErr' = RecovErr(<<>>, d.panicErr)
                      /\ kpc' = "return"
                      /\ UNCHANGED stack
    /\ UNCHANGED <<convertVars, execVars, strtrVars, randVars, catchVars, retryVars, maxPanics, jobID>>

\* The innermost call returns recovErr: to the caller of Recoverer, or to
\* line 217 of the call above it, which goes on to its own return (lines
\* 219-222)
ReturnRecovErr ==
    /\ kpc = "return"
    /\ stack' = SubSeq(stack, 1, Len(stack) - 1)
    /\ IF Len(stack) = 1
       THEN kpc' = "done" /\ UNCHANGED recovErr
       ELSE /\ recovErr' = RecovErr(recovErr, stack[Len(stack) - 1].panicErr)
            /\ kpc' = "return"
    /\ UNCHANGED <<convertVars, execVars, strtrVars, randVars, catchVars, retryVars, logged, maxPanics, jobID, outcomes>>

NextRecoverer == FCompletes \/ FPanics \/ ReturnRecovErr

SpecRecoverer == InitRecoverer /\ [][NextRecoverer]_vars

(***************************************************************************)
(* Properties of tool.Recoverer.                                           *)
(***************************************************************************)
\* The number of invocations of f so far.
Invocations == Len(outcomes)

\* Every invocation of f so far panicked.
AlwaysPanics == \A k \in 1..Invocations : outcomes[k] # <<>>

\* Every invocation of f so far panicked with a value that recover()
\* reports as non-nil.
AlwaysPanicsNonNil ==
    \A k \in 1..Invocations : outcomes[k] # <<>> /\ outcomes[k][1].t # "nil"

\* C20 as stated: with maxPanics >= 0, f is invoked once and nil is
\* returned when f does not panic; f is invoked maxPanics+1 times and a
\* non-nil error is returned when every invocation panics; no panic of f
\* leaves Recoverer.
C20_RecovererCounts ==
    /\ kpc # "panicked"
    /\ (kpc = "done" /\ maxPanics >= 0) =>
           /\ outcomes[1] = <<>> => (Invocations = 1 /\ recovErr = <<>>)
           /\ AlwaysPanics => (Invocations = maxPanics + 1 /\ recovErr # <<>>)

\* C20 (amended): as C20 for the panics whose value recover() reports as
\* non-nil; an invocation that panics with a nil value ends the call as
\* one that completes does: no further invocation, and nil is returned
\* when it was the first.
C20_RecovererCountsNonNil ==
    /\ kpc # "panicked"
    /\ (kpc = "done" /\ maxPanics >= 0) =>
           /\ outcomes[1] = <<>> => (Invocations = 1 /\ recovErr = <<>>)
           /\ AlwaysPanicsNonNil => (Invocations = maxPanics + 1 /\ recovErr # <<>>)
           /\ (outcomes[1] # <<>> /\ outcomes[1][1].t = "nil") =>
                  (Invocations = 1 /\ recovErr = <<>>)
           /\ \A k \in 1..(Invocations - 1) :
                  outcomes[k] # <<>> /\ outcomes[k][1].t # "nil"

\* With maxPanics = 2, f panicked with "test" three times: three
\* invocations, and an error is returned.
C20_Witness ==
    /\ kpc = "done" /\ maxPanics = 2 /\ Invocations = 3
    /\ \A k \in 1..3 : outcomes[k] = <<Val("string", "test")>>
    /\ recovErr # <<>>
    /\ stack = <<>>

\* The invocations of f so far that panicked.
Panicked == {k \in 1..Invocations : outcomes[k] # <<>>}

\* The invocations of f so far that panicked with a value that recover()
\* reports as non-nil.
PanickedNonNil == {k \in Panicked : outcomes[k][1].t # "nil"}

\* The last invocation of a non-empty set of them.
Last(S) == CHOOSE k \in S : \A m \in S : m <= k

\* C30 as stated: Recoverer returns nil only when the first invocation of
\* f completed without panicking; when f panicked at least once it returns
\* the error built from the last panic, also when a later invocation
\* completed.
C30_ErrorOfLastPanic ==
    kpc = "done" =>
        /\ recovErr = <<>> => (Invocations = 1 /\ Panicked = {})
        /\ Panicked # {} =>
               recovErr = <<PanicErr(jobID, outcomes[Last(Panicked)][1])>>

\* C30 (amended): as C30 for the panics whose value recover() reports as
\* non-nil; an invocation that panics with a nil value counts as one that
\* completed.
C30_ErrorOfLastNonNilPanic ==
    kpc = "done" =>
        /\ recovErr = <<>> => (Invocations = 1 /\ PanickedNonNil = {})
        /\ PanickedNonNil # {} =>
               recovErr = <<PanicErr(jobID, outcomes[Last(PanickedNonNil)][1])>>

\* f panicked with "test", then with "again", then completed: the error
\* of the second panic was returned.
C30_Witness ==
    /\ kpc = "done" /\ Invocations = 3
    /\ outcomes[1] = <<Val("string", "test")>>
    /\ outcomes[2] = <<Val("string", "again")>>
    /\ outcomes[3] = <<>>
    /\ recovErr = <<PanicErr(jobID, Val("string", "again"))>>

\* The last invocation of f so far completed without panicking.
LastCompleted == Invocations >= 1 /\ outcomes[Invocations] = <<>>

\* Every panic of f so far had a value that recover() reports as non-nil.
PanicsNonNil ==
    \A k \in 1..Invocations : outcomes[k] # <<>> => outcomes[k][1].t # "nil"

\* C21: with maxPanics < 0, Recoverer returns only after an invocation of
\* f that completed without panicking, however many panics came before
\* (stated for the panics that recover() reports as non-nil, the ones the
\* deferred function sees).
C21_NegativeNeverGivesUp ==
    (kpc = "done" /\ maxPanics < 0 /\ PanicsNonNil) => LastCompleted

\* With maxPanics = -1 every invocation of f panicked with "test": the
\* counter went down to MinNum, wrapped to MaxNum and reached 0, and
\* Recoverer returned the error of a panic.
C21_WrappedToZero ==
    /\ kpc = "done" /\ maxPanics = 0 - 1
    /\ Invocations = MaxNum - MinNum + 1
    /\ \A k \in 1..Invocations : outcomes[k] = <<Val("string", "test")>>
    /\ recovErr # <<>>


(***************************************************************************)
(* safetool.RandInt[num](min, max) (src/unnamed/part_002 lines 40-53), on  *)
(* a signed type of NumBits bits.  crypto/rand's reader works or fails.    *)
(***************************************************************************)
\* The value of type num that an integer is truncated to: num(x), and the
\* result of + and - on values of type num.
ToNum(n) == ((n - MinNum) % (2 ^ NumBits)) + MinNum

\* Line 44: int64(max - min), the subtraction being done in num
ValRange(mn, mx) == ToNum(mx - mn)

\* crypto/rand.Int(rand.Reader, max): panics when max <= 0, fails when
\* the reader fails, else gives any n with 0 <= n < max
RandIntn(mx, fails) ==
    IF mx <= 0
    THEN {[n |-> 0, err |-> <<>>,
           panics |-> <<Val("string", "crypto/rand: argument to Int is <= 0")>>]}
    ELSE IF fails
    THEN {[n |-> 0, err |-> <<NewError("reader failed")>>, panics |-> <<>>]}
    ELSE {[n |-> k, err |-> <<>>, panics |-> <<>>] : k \in 0..(mx - 1)}

\* Lines 41-52: what a call of RandInt(mn, mx) may end with
RandInt(mn, mx, fails) ==
    IF mn >= mx
    THEN {[val |-> 0,
           err |-> <<Errorf("min (%v) must be less than max (%v)", <<mn, mx>>)>>,
           panics |-> <<>>]}
    ELSE {IF r.panics # <<>>
          THEN [val |-> 0, err |-> <<>>, panics |-> r.panics]
          ELSE IF r.err # <<>>
          THEN [val |-> 0,
                err |-> <<Errorf("failed to generate random number: %w", r.err)>>,
                panics |-> <<>>]
          ELSE [val |-> ToNum(r.n + mn), err |-> <<>>, panics |-> <<>>]
          : r \in RandIntn(ValRange(mn, mx), fails)}

InitRandInt ==
    /\ ConvertIdle
    /\ ExecIdle
    /\ StrtrIdle
    /\ CatchIdle
    /\ RetryIdle
    /\ RecovererIdle
    /\ logged = <<>>
    /\ min \in Num
    /\ max \in Num
    /\ readerFails \in BOOLEAN
    /\ ipc = "call"
    /\ randVal = 0
    /\ randErr = <<>>

\* A call of RandInt(min, max)
CallRandInt ==
    /\ ipc = "call"
    /\ \E r \in RandInt(min, max, readerFails) :
          /\ ipc' = IF r.panics # <<>> THEN "panicked" ELSE "done"
          /\ randVal' = r.val
          /\ randErr' = r.err
    /\ UNCHANGED <<convertVars, execVars, strtrVars, catchVars, retryVars, recovererVars, logged, min, max, readerFails>>

NextRandInt == CallRandInt

SpecRandInt == InitRandInt /\ [][NextRandInt]_vars

(***************************************************************************)
(* Properties of safetool.RandInt.                                         *)
(***************************************************************************)
\* C22: for min < max RandInt returns a nil error and a value v with
\* min <= v < max; for min >= max it returns an error; it never panics
\* (stated for a reader that works).
C22_RandIntInRange ==
    /\ ipc # "panicked"
    /\ (ipc = "done" /\ ~readerFails) =>
           IF min < max
           THEN randErr = <<>> /\ min <= randVal /\ randVal < max
           ELSE randErr # <<>>

\* A call with max - min within num returned the largest value of its
\* range.
C22_InRangeReached ==
    /\ ipc = "done" /\ min = 0 - 2 /\ max = 1 /\ randVal = 0 /\ randErr = <<>>


(***************************************************************************)
(* Strtr(subject, oldToNew) (src/unnamed/part_002 lines 127-139; the same  *)
(* code at src/tool.go lines 243-255).  A string is the sequence of its    *)
(* characters; a map is a function on its keys; the range statement takes  *)
(* the keys in any order, each once.                                       *)
(***************************************************************************)
MaxPairs == 3

Subjects ==
    {<<>>, <<"a", "b">>, <<"b", "a">>, <<"a", "a", "b">>,
     <<"a", "b", "a", "b", "a", "b">>}

Keys == {<<>>, <<"a">>, <<"a", "b">>, <<"a", "b", "a">>}

News == {<<>>, <<"a">>, <<"x">>, <<"y">>, <<"a", "b">>}

Maps ==
    UNION {[K -> News] : K \in {S \in SUBSET Keys : Cardinality(S) <= MaxPairs}}

\* strings.ReplaceAll(s, old, new): the non-overlapping occurrences of old
\* from the left; an empty old matches before every character and at the
\* end
RECURSIVE ReplaceAll(_, _, _)
ReplaceAll(s, old, new) ==
    IF old = <<>>
    THEN IF s = <<>> THEN new
         ELSE new \o <<Head(s)>> \o ReplaceAll(Tail(s), old, new)
    ELSE IF Len(s) < Len(old) THEN s
    ELSE IF SubSeq(s, 1, Len(old)) = old
    THEN new \o ReplaceAll(SubSeq(s, Len(old) + 1, Len(s)), old, new)
    ELSE <<Head(s)>> \o ReplaceAll(Tail(s), old, new)

\* The pairs skipped only when key and value are equal.
SkippedOnlyEqual(old, news) == old = news

\* Line 133: the pairs the loop passes over
Skipped(old, news) == old = <<>> \/ old = news

\* Line 128: the call returns its subject at once
ReturnsAtOnce(subj, m) == DOMAIN m = {} \/ Len(subj) = 0

InitStrtr ==
    /\ ConvertIdle
    /\ ExecIdle
    /\ RandIdle
    /\ CatchIdle
    /\ RetryIdle
    /\ RecovererIdle
    /\ logged = <<>>
    /\ subjectArg \in Subjects
    /\ oldToNew \in Maps
    /\ subject = subjectArg
    /\ ranged = {}
    /\ tpc = "enter"

\* Lines 128-130
StrtrEnter ==
    /\ tpc = "enter"
    /\ tpc' = IF ReturnsAtOnce(subject, oldToNew) THEN "done" ELSE "range"
    /\ UNCHANGED <<convertVars, execVars, randVars, catchVars, retryVars, recovererVars, logged, subjectArg, oldToNew, subject, ranged>>

\* Lines 132-137: one iteration of the range over oldToNew
StrtrIterate ==
    /\ tpc = "range"
    /\ \E old \in DOMAIN oldToNew \ ranged :
          /\ ranged' = ranged \cup {old}
          /\ subject' = IF Skipped(old, oldToNew[old]) THEN subject
                        ELSE ReplaceAll(subject, old, oldToNew[old])
    /\ UNCHANGED <<convertVars, execVars, randVars, catchVars, retryVars, recovererVars, logged, subjectArg, oldToNew, tpc>>

\* Line 138: the range is over
StrtrReturn ==
    /\ tpc = "range"
    /\ ranged = DOMAIN oldToNew
    /\ tpc' = "done"
    /\ UNCHANGED <<convertVars, execVars, randVars, catchVars, retryVars, recovererVars, logged, subjectArg, oldToNew, subject, ranged>>

NextStrtr == StrtrEnter \/ StrtrIterate \/ StrtrReturn

SpecStrtr == InitStrtr /\ [][NextStrtr]_vars

(***************************************************************************)
(* Properties of Strtr.                                                    *)
(***************************************************************************)
\* The keys of the pairs with a non-empty key that differs from its value.
Effective(m) == {k \in DOMAIN m : k # <<>> /\ k # m[k]}

\* The orders of a set of keys.
Orders(S) ==
    {o \in [1..Cardinality(S) -> S] : \A a, b \in 1..Cardinality(S) : a # b => o[a] # o[b]}

\* Replace-all applied for the keys of o one after another.
RECURSIVE ApplyInOrder(_, _, _)
ApplyInOrder(subj, m, o) ==
    IF o = <<>> THEN subj
    ELSE ApplyInOrder(ReplaceAll(subj, Head(o), m[Head(o)]), m, Tail(o))

\* C23: the result of Strtr is the subject after replace-all for each
\* pair with a non-empty key that differs from its value, in some order
\* of the keys; the subject comes back unchanged when it is empty, the map
\* is empty, or no pair has such a key.
C23_StrtrSomeOrder ==
    tpc = "done" =>
        /\ \E o \in Orders(Effective(oldToNew)) :
               subject = ApplyInOrder(subjectArg, oldToNew, o)
        /\ (subjectArg = <<>> \/ DOMAIN oldToNew = {} \/ Effective(oldToNew) = {})
               => subject = subjectArg

\* "ababab" with {aba: x, ab: y} came out as "xby".
C23_Witness ==
    /\ tpc = "done"
    /\ subjectArg = <<"a", "b", "a", "b", "a", "b">>
    /\ DOMAIN oldToNew = {<<"a", "b", "a">>, <<"a", "b">>}
    /\ oldToNew[<<"a", "b", "a">>] = <<"x">>
    /\ oldToNew[<<"a", "b">>] = <<"y">>
    /\ subject = <<"x", "b", "y">>

\* The same call came out as "yyy".
C23_OtherOrder ==
    /\ tpc = "done"
    /\ subjectArg = <<"a", "b", "a", "b", "a", "b">>
    /\ DOMAIN oldToNew = {<<"a", "b", "a">>, <<"a", "b">>}
    /\ oldToNew[<<"a", "b", "a">>] = <<"x">>
    /\ oldToNew[<<"a", "b">>] = <<"y">>
    /\ subject = <<"y", "y", "y">>


(***************************************************************************)
(* tool.ExecTemplate(templateText, templateVars) (src/tool.go lines        *)
(* 367-379).  A template text is the sequence of its pieces: plain text,   *)
(* the action {{.}} or {{.name}}, or an action that is never closed.  A    *)
(* string is the sequence of its non-empty pieces.                         *)
(***************************************************************************)
Text(str) == [k |-> "text", s |-> str]

\* {{.name}}; {{.}} for the empty name
Field(name) == [k |-> "field", s |-> name]

\* "{{" with no "}}"
Unclosed == [k |-> "open", s |-> ""]

TemplateTexts ==
    {<<>>,
     <<Text("hello "), Field("")>>,
     <<Text("hello "), Field("name")>>,
     <<Text("hello "), Field("Name")>>,
     <<Field("Name"), Text(" bye")>>,
     <<Text("hello "), Unclosed>>,
     <<Unclosed>>,
     <<Field("name"), Unclosed>>}

TemplateData ==
    {Val("string", "world"),
     Val("map[string]string", [name |-> "world"]),
     Val("map[string]string", <<>>),
     Val("struct{Name}", [Name |-> "world"]),
     Val("struct{Value}", [Value |-> "world"])}

\* (*Template).Parse: nil and an error for a text that does not parse,
\* else the template with its default options
Parse(text) ==
    IF \E n \in 1..Len(text) : text[n].k = "open"
    THEN [tpl |-> <<>>, err |-> <<NewError("template: ez:1: unclosed action")>>]
    ELSE [tpl |-> <<[nodes |-> text, missingkey |-> "default"]>>, err |-> <<>>]

\* (*Template).Option("missingkey=zero"): t.init() dereferences t
Option(t) ==
    IF t = <<>>
    THEN [tpl |-> t,
          panics |-> <<Val("runtime.Error", "invalid memory address or nil pointer dereference")>>]
    ELSE [tpl |-> <<[t[1] EXCEPT !.missingkey = "zero"]>>, panics |-> <<>>]

\* fmt.Fprint of the value of {{.}}
Sprint(data) ==
    CASE data.t = "string" -> data.v
      [] data.t = "map[string]string" ->
            IF DOMAIN data.v = {} THEN "map[]" ELSE "map[name:world]"
      [] OTHER -> "{world}"

\* The evaluation of a field action on the data
EvalField(name, data, missingkey) ==
    IF name = "" THEN [out |-> Sprint(data), err |-> <<>>]
    ELSE IF data.t = "string"
    THEN [out |-> "", err |-> <<NewError("can't evaluate field in type string")>>]
    ELSE IF name \in DOMAIN data.v THEN [out |-> data.v[name], err |-> <<>>]
    ELSE IF data.t = "map[string]string"
    THEN [out |-> IF missingkey = "zero" THEN "" ELSE "<no value>", err |-> <<>>]
    ELSE [out |-> "", err |-> <<NewError("can't evaluate field in type struct")>>]

\* strings.Builder.WriteString
WriteString(b, str) == IF str = "" THEN b ELSE Append(b, str)

RECURSIVE Execute(_, _, _, _)
\* (*Template).Execute from node n on: what was written, and the error
Execute(t, data, n, b) ==
    IF n > Len(t.nodes) THEN [buf |-> b, err |-> <<>>]
    ELSE IF t.nodes[n].k = "text"
    THEN Execute(t, data, n + 1, WriteString(b, t.nodes[n].s))
    ELSE LET r == EvalField(t.nodes[n].s, data, t.missingkey)
         IN  IF r.err # <<>> THEN [buf |-> b, err |-> r.err]
             ELSE Execute(t, data, n + 1, WriteString(b, r.out))

InitExecTemplate ==
    /\ ConvertIdle
    /\ StrtrIdle
    /\ RandIdle
    /\ CatchIdle
    /\ RetryIdle
    /\ RecovererIdle
    /\ logged = <<>>
    /\ templateText \in TemplateTexts
    /\ templateVars \in TemplateData
    /\ tpl = <<>>
    /\ tplErr = <<>>
    /\ buf = <<>>
    /\ xpc = "parse"
    /\ rendered = <<>>

\* Line 368
ExecParse ==
    /\ xpc = "parse"
    /\ tpl' = Parse(templateText).tpl
    /\ tplErr' = Parse(templateText).err
    /\ xpc' = "option"
    /\ UNCHANGED <<convertVars, strtrVars, randVars, catchVars, retryVars, recovererVars, logged, templateText, templateVars, buf, rendered>>

\* Line 369
ExecOption ==
    /\ xpc = "option"
    /\ tpl' = Option(tpl).tpl
    /\ xpc' = IF Option(tpl).panics # <<>> THEN "panicked" ELSE "try"
    /\ UNCHANGED <<convertVars, strtrVars, randVars, catchVars, retryVars, recovererVars, logged, templateText, templateVars, tplErr, buf, rendered>>

\* Lines 370-372; Try(err) without verbose logs nothing
ExecTryParse ==
    /\ xpc = "try"
    /\ xpc' = IF tplErr # <<>> THEN "done" ELSE "execute"
    /\ rendered' = <<>>
    /\ UNCHANGED <<convertVars, strtrVars, randVars, catchVars, retryVars, recovererVars, logged, templateText, templateVars, tpl, tplErr, buf>>

\* Lines 373-378
ExecExecute ==
    /\ xpc = "execute"
    /\ LET r == Execute(tpl[1], templateVars, 1, <<>>)
       IN  /\ buf' = r.buf
           /\ tplErr' = r.err
           /\ rendered' = IF r.err # <<>> THEN <<>> ELSE r.buf
    /\ xpc' = "done"
    /\ UNCHANGED <<convertVars, strtrVars, randVars, catchVars, retryVars, recovererVars, logged, templateText, templateVars, tpl>>

NextExecTemplate == ExecParse \/ ExecOption \/ ExecTryParse \/ ExecExecute

SpecExecTemplate == InitExecTemplate /\ [][NextExecTemplate]_vars

(***************************************************************************)
(* Properties of tool.ExecTemplate.                                        *)
(***************************************************************************)
\* The template text does not parse.
ParseFails == \E n \in 1..Len(templateText) : templateText[n].k = "open"

\* C27: ExecTemplate never panics; it returns the empty string when the
\* text does not parse or the execution fails, and the rendered text
\* otherwise.
C27_ExecTemplateMutes ==
    /\ xpc # "panicked"
    /\ xpc = "done" =>
           /\ (ParseFails \/ tplErr # <<>>) => rendered = <<>>
           /\ (~ParseFails /\ tplErr = <<>>) => rendered = buf

\* "hello {{.Name}}" on a struct without the field Name: "hello " was
\* written, the execution failed, and the empty string was returned.
C27_ExecutionFailed ==
    /\ xpc = "done"
    /\ templateText = <<Text("hello "), Field("Name")>>
    /\ templateVars.t = "struct{Value}"
    /\ buf = <<"hello ">> /\ tplErr # <<>> /\ rendered = <<>>

\* "hello {{.name}}" on an empty map rendered "hello ".
C27_MissingKey ==
    /\ xpc = "done"
    /\ templateText = <<Text("hello "), Field("name")>>
    /\ templateVars.t = "map[string]string" /\ DOMAIN templateVars.v = {}
    /\ rendered = <<"hello ">>


(***************************************************************************)
(* tool.RetryFunc[num](attempts, sleep, f) (src/tool.go lines 191-207),    *)
(* run on the sequence of what the calls of f return.                      *)
(***************************************************************************)
\* Lines 88-96: Try(err) without verbose
Try(err) == err # <<>>

\* The test that stops with one retry left.
NoAttemptsLeftEarly(att) == att <= 1

\* Line 199: no retry is left
NoAttemptsLeft(att) == att = 0

RECURSIVE LooseRetryFrom(_, _, _, _, _)
\* Lines 193-206 from the k-th call of f on, with att the current value of
\* attempts and acc what was slept and logged so far.  When the returns of
\* f are used up the call is still in its loop (ended is FALSE).
LooseRetryFrom(att, d, script, k, acc) ==
    IF k > Len(script)
    THEN [ended |-> FALSE, calls |-> k - 1, ret |-> <<>>,
          slept |-> acc.slept, logs |-> acc.logs]
    ELSE LET retryErr == script[k]
         IN  IF ~Try(retryErr)
             THEN [ended |-> TRUE, calls |-> k, ret |-> <<>>,
                   slept |-> acc.slept, logs |-> acc.logs]
             ELSE IF NoAttemptsLeft(att)
             THEN [ended |-> TRUE, calls |-> k, ret |-> retryErr,
                   slept |-> acc.slept, logs |-> acc.logs]
             ELSE LooseRetryFrom(Dec(att), d, script, k + 1,
                                 [slept |-> Append(acc.slept, d),
                                  logs |-> Append(acc.logs,
                                                  LogError(retryErr[1],
                                                           <<"retrying after error">>))])

\* tool.RetryFunc(att, d, f) where the calls of f return script in turn
LooseRetryFunc(att, d, script) ==
    LooseRetryFrom(att, d, script, 1, [slept |-> <<>>, logs |-> <<>>])

(***************************************************************************)
(* tool.RetryFunc against safetool.RetryFunc.                              *)
(***************************************************************************)
\* tool.RetryFunc with the arguments of the call and the returns of f so
\* far.
LooseRetry == LooseRetryFunc(attempts, sleep, results)

\* C29: for attempts >= 0 and the same returns of f, tool.RetryFunc and
\* safetool.RetryFunc call f the same number of times, sleep once between
\* two consecutive calls and not after the last, and return nil when the
\* last call returned nil and the error of the last call otherwise; where
\* one goes on to another call, so does the other.
C29_RetryFuncsAgree ==
    attempts >= 0 =>
        /\ rpc = "done" =>
               /\ LooseRetry.ended
               /\ LooseRetry.calls = Calls
               /\ LooseRetry.slept = slept
               /\ Len(slept) = Calls - 1
               /\ \A k \in 1..Len(slept) : slept[k] = sleep
               /\ LooseRetry.ret = retryRet
               /\ retryRet = results[Calls]
        /\ rpc = "loop" =>
               /\ ~LooseRetry.ended
               /\ LooseRetry.calls = Calls
               /\ LooseRetry.slept = slept

\* With attempts = 3, f failed twice and then returned nil: both functions
\* made three calls and two sleeps and returned nil.
C29_Witness ==
    /\ rpc = "done" /\ attempts = 3 /\ Calls = 3
    /\ results[1] # <<>> /\ results[2] # <<>> /\ results[3] = <<>>
    /\ LooseRetry.ended /\ LooseRetry.calls = 3 /\ Len(LooseRetry.slept) = 2
    /\ LooseRetry.ret = <<>> /\ retryRet = <<>>
    /\ Len(LooseRetry.logs) = 2


(***************************************************************************)
(* Properties of safetool.ConvertSlice that compare calls.                 *)
(***************************************************************************)
\* The source slice with element j replaced by x.
Replaced(j, x) == MkSlice([srcSlice.elems EXCEPT ![j] = x])

\* C24: in a successful result the destination element at an index is
\* what the conversion of the source element alone gives for the same
\* destination type, and replacing another element by a value with which
\* the call still succeeds leaves it unchanged.
C24_ElementsIndependent ==
    (Done /\ outcome = "ok") =>
        /\ \A k \in 1..Len(srcSlice.elems) :
               LET one == ConvertSlice(MkSlice(<<srcSlice.elems[k]>>), destTypedValue)
               IN  one.outcome = "ok" /\ one.retSlice.elems[1] = retSlice.elems[k]
        /\ \A j \in 1..Len(srcSlice.elems) : \A x \in Values(T) :
               LET other == ConvertSlice(Replaced(j, x), destTypedValue)
               IN  other.outcome = "ok" =>
                       \A k \in 1..Len(srcSlice.elems) :
                           k # j => other.retSlice.elems[k] = retSlice.elems[k]

\* A slice of a non-null element followed by a null one was converted:
\* the two destination elements differ.
C24_Witness ==
    /\ Done /\ outcome = "ok" /\ Len(srcSlice.elems) = 2
    /\ IsValid(Unwrap(srcSlice.elems[1]))
    /\ ~IsValid(Unwrap(srcSlice.elems[2]))
    /\ retSlice.elems[1] # retSlice.elems[2]


\* C25: the call leaves its inputs and everything outside it alone: at
\* every point of a call, and after it, whether it succeeded or failed,
\* the source's array holds the elements the call was given, nothing was
\* logged, and a returned slice is not on the source's array.
C25_InputsUntouched ==
    pc # "idle" =>
        /\ backing.src = srcSlice.elems
        /\ Len(backing.src) = Len(srcSlice.elems)
        /\ logged = <<>>
        /\ retArray # "src"
        /\ (Done /\ outcome = "ok" /\ Len(srcSlice.elems) > 0) =>
               (retArray = "new" /\ backing.new = retSlice.elems)

\* A slice of two elements was converted to its own element type with a
\* result that differs from the source.
C25_Witness ==
    /\ Done /\ outcome = "ok" /\ Len(srcSlice.elems) = 2
    /\ T = destType
    /\ retSlice.elems # srcSlice.elems
    /\ retArray = "new"


\* The strategy the priority order gives element x for destination type
\* dt: the first of the four that applies.
Strategy(x, dt) ==
    LET v == Unwrap(x)
    IN  IF ~IsValid(v) THEN "null"
        ELSE IF Kind(v.t) \in NumericKinds /\ Kind(dt) = KindString THEN "reject"
        ELSE IF ConvertibleTo(v.t, dt) THEN "convert"
        ELSE IF AssignableTo(v.t, dt) THEN "assign"
        ELSE IF Kind(v.t) = KindStruct /\ Kind(dt) = KindStruct THEN "copy"
        ELSE "none"

\* C26: every non-null element goes through the first strategy that
\* applies, in the order: reject numeric/bool to string, convert, assign,
\* copy the fields of a struct to a struct.  An element already converted
\* holds what its strategy gives; the call fails at the first element that
\* is rejected or that no strategy applies to, with that element's
\* conversion error.
C26_StrategyOrder ==
    (pc \in {"loop", "done"} /\ destType # NilType) =>
        /\ \A k \in 1..i :
               LET x == srcSlice.elems[k]
                   st == Strategy(x, destType)
               IN  /\ st \notin {"reject", "none"}
                   /\ st = "convert" => destSlice[k] = Convert(Unwrap(x), destType)
                   /\ st = "assign" => destSlice[k] = AssignTo(Unwrap(x), destType)
                   /\ st = "copy" => destSlice[k].t = destType
        /\ (Done /\ outcome = "err") =>
               LET x == srcSlice.elems[i + 1]
                   st == Strategy(x, destType)
               IN  /\ st \in {"reject", "none", "copy"}
                   /\ st = "reject" =>
                          TheErr = Errorf(FmtNumericToString, <<i, Unwrap(x).t>>)
                   /\ st = "none" =>
                          TheErr = Errorf(FmtNoStrategy, <<i, Unwrap(x).t, destType>>)
        /\ (pc = "loop" /\ i < N /\ Strategy(srcSlice.elems[i + 1], destType) \in {"reject", "none"}) =>
               IterateStep(srcSlice, destTypedValue, Frame).outcome = "err"

\* A struct element met a destination type of kind int: no strategy
\* applied and the call failed with the error of that element.
C26_Witness ==
    /\ Done /\ outcome = "err" /\ i = 1 /\ N = 2
    /\ Kind(Unwrap(srcSlice.elems[2]).t) = KindStruct
    /\ Kind(destType) = KindInt
    /\ Strategy(srcSlice.elems[2], destType) = "none"
    /\ TheErr = Errorf(FmtNoStrategy, <<1, Unwrap(srcSlice.elems[2]).t, destType>>)

\* A numeric element met a struct destination type and the call failed.
C26_NumericToStruct ==
    /\ Done /\ outcome = "err" /\ i < N
    /\ Kind(Unwrap(srcSlice.elems[i + 1]).t) = KindInt
    /\ Kind(destType) = KindStruct


\* What tool.ConvertSlice does with the arguments of the call.
Loose == LooseConvertSlice(srcSlice, destTypedValue)

\* C28: the loose converter agrees with the safe one: when the safe call
\* returns a slice and a nil error, the loose call returns an equal slice;
\* when the safe call returns an error, the loose call returns no slice.
C28_LooseAgreesWithSafe ==
    Done =>
        /\ outcome = "ok" => (Loose.outcome = "ok" /\ Loose.retSlice = retSlice)
        /\ outcome = "err" => Loose.outcome = "panic"

\* The safe call gave the zero value for a nil pointer element; the loose
\* call on the same arguments panicked.
C28_NilPointerPanics ==
    /\ Done /\ outcome = "ok" /\ N = 1
    /\ Kind(T) = KindPtr /\ IsNilVal(srcSlice.elems[1])
    /\ retSlice.elems = <<Zero(destType)>>
    /\ Loose.outcome = "panic"

\* The safe call failed on an element; the loose call returned a slice.
C28_ErrorMuted ==
    /\ Done /\ outcome = "err" /\ N > 0
    /\ Loose.outcome = "ok"


\* The state machine and the function agree on every call.
RunAgrees ==
    Done => ConvertSlice(srcSlice, destTypedValue) =
                [outcome |-> outcome, retSlice |-> retSlice, retErr |-> retErr]
====
